---- MODULE Spec2Model ----
(***************************************************************************)
(* Model of the ICD-10-PCS code resolution engine of utils/validation.py:  *)
(* the table store (PCSTables), the term index (PCSIndex), the synonym and *)
(* aggregation keys, the TablesContext and resolve_code.                   *)
(*                                                                         *)
(* A Python str is a sequence of one-character strings, so that strip(),   *)
(* lower(), the `in` substring test, slicing and the ordering of strings   *)
(* are computed and not assumed.  None is the value None below.  A Python  *)
(* dict is a sequence of [k, v] entries in insertion order.                *)
(***************************************************************************)
EXTENDS Integers, Sequences, FiniteSets, TLC

VARIABLES assets, ctx, call, callers, loader

vars == <<assets, ctx, call, callers, loader>>

(***************************************************************************)
(* Characters and strings                                                  *)
(***************************************************************************)
UpperChars ==
    <<"A","B","C","D","E","F","G","H","I","J","K","L","M","N","O","P","Q","R","S","T","U","V",
      "W","X","Y","Z">>
LowerChars ==
    <<"a","b","c","d","e","f","g","h","i","j","k","l","m","n","o","p","q","r","s","t","u","v",
      "w","x","y","z">>
Digits == <<"0","1","2","3","4","5","6","7","8","9">>

\* The characters of the model in code point order (Python compares str by code point).
CodePoints == <<"\t","\n"," ",".">> \o Digits \o <<"<",">">> \o UpperChars \o LowerChars

Whitespace == {"\t", "\n", " "}

None == <<"<None>">>

Ord(c) == CHOOSE i \in 1..Len(CodePoints) : CodePoints[i] = c

LowerMap == [c \in {UpperChars[i] : i \in 1..Len(UpperChars)} |->
                LowerChars[CHOOSE i \in 1..Len(UpperChars) : UpperChars[i] = c]]

\* bool(s) of an Optional[str]
Truthy(s) == s # None /\ s # <<>>

\* str.lower()
lower(s) == [i \in 1..Len(s) |-> IF s[i] \in DOMAIN LowerMap THEN LowerMap[s[i]] ELSE s[i]]

RECURSIVE lstrip(_)
lstrip(s) == IF s # <<>> /\ Head(s) \in Whitespace THEN lstrip(Tail(s)) ELSE s

RECURSIVE rstrip(_)
rstrip(s) == IF s # <<>> /\ s[Len(s)] \in Whitespace THEN rstrip(SubSeq(s, 1, Len(s) - 1)) ELSE s

\* str.strip()
strip(s) == rstrip(lstrip(s))

\* needle in hay
InStr(needle, hay) ==
    \E i \in 0..(Len(hay) - Len(needle)) : SubSeq(hay, i + 1, i + Len(needle)) = needle

\* s[:n]
Prefix(s, n) == SubSeq(s, 1, IF Len(s) < n THEN Len(s) ELSE n)

\* s.startswith(p)
StartsWith(s, p) == Len(p) <= Len(s) /\ SubSeq(s, 1, Len(p)) = p

\* a < b on str
RECURSIVE StrLess(_, _)
StrLess(a, b) ==
    IF b = <<>> THEN FALSE
    ELSE IF a = <<>> THEN TRUE
    ELSE IF Head(a) # Head(b) THEN Ord(Head(a)) < Ord(Head(b))
    ELSE StrLess(Tail(a), Tail(b))

\* v in lst
InList(v, lst) == \E i \in 1..Len(lst) : lst[i] = v

(***************************************************************************)
(* Python dict as an insertion-ordered sequence of entries                 *)
(***************************************************************************)
DictHas(d, k) == \E i \in 1..Len(d) : d[i].k = k

DictGet(d, k, default) ==
    IF DictHas(d, k) THEN d[CHOOSE i \in 1..Len(d) : d[i].k = k].v ELSE default

\* d[k] = v: a present key keeps its position and takes the new value
DictSet(d, k, v) ==
    IF DictHas(d, k)
    THEN [i \in 1..Len(d) |-> IF d[i].k = k THEN [k |-> k, v |-> v] ELSE d[i]]
    ELSE Append(d, [k |-> k, v |-> v])

(***************************************************************************)
(* Helpers (validation.py 7-14)                                            *)
(***************************************************************************)
_norm(s) == strip(IF Truthy(s) THEN s ELSE <<>>)

_eq(a, b) == lower(_norm(a)) = lower(_norm(b))

_contains(a, b) == InStr(lower(_norm(b)), lower(_norm(a)))

(***************************************************************************)
(* Tables parser (validation.py 18-89).  The table source is a sequence of *)
(* pcsTable elements [axes, rows]; an axis element is                      *)
(* [pos, title, definition, labels] and a label element [code, text].      *)
(***************************************************************************)
NoLabel == [code |-> None, text |-> None]

\* {} read with .get('code','') / .get('text','')
EmptyLabel == [code |-> <<>>, text |-> <<>>]

_labels(axis_elem) ==
    [i \in 1..Len(axis_elem.labels) |->
        [code |-> axis_elem.labels[i].code, text |-> strip(axis_elem.labels[i].text)]]

\* dict pos -> info; a later axis of the same pos replaces an earlier one
_axis_info(table_elem) ==
    LET axes == table_elem.axes
        last(p) == CHOOSE i \in 1..Len(axes) :
                      axes[i].pos = p /\ \A j \in (i + 1)..Len(axes) : axes[j].pos # p
    IN [p \in {axes[i].pos : i \in 1..Len(axes)} |->
          [title      |-> strip(axes[last(p)].title),
           definition |-> strip(axes[last(p)].definition),
           labels     |-> _labels(axes[last(p)])]]

\* (header.get(pos, {}).get('labels') or [{}])[0]
HeaderLabel(header, pos) ==
    IF pos \in DOMAIN header /\ header[pos].labels # <<>>
    THEN header[pos].labels[1] ELSE EmptyLabel

\* row_dict of one pcsRow: pos -> labels, a later axis of the same pos wins
RowDict(row) ==
    LET last(p) == CHOOSE i \in 1..Len(row) :
                      row[i].pos = p /\ \A j \in (i + 1)..Len(row) : row[j].pos # p
    IN [p \in {row[i].pos : i \in 1..Len(row)} |-> _labels(row[last(p)])]

RECURSIVE ParseRows(_)
ParseRows(rows) ==
    IF rows = <<>> THEN <<>>
    ELSE (IF Head(rows) # <<>> THEN <<RowDict(Head(rows))>> ELSE <<>>) \o ParseRows(Tail(rows))

\* {"code": lab.get('code',''), "text": lab.get('text','')}
CodeText(lab) == [code |-> lab.code, text |-> lab.text]

\* table_entry built from the header dict and the pcsRow elements
EntryOf(header, rows) ==
    [section     |-> CodeText(HeaderLabel(header, "1")),
     body_system |-> CodeText(HeaderLabel(header, "2")),
     operation   |-> [code |-> HeaderLabel(header, "3").code,
                      text |-> HeaderLabel(header, "3").text,
                      definition |-> IF "3" \in DOMAIN header
                                     THEN header["3"].definition ELSE <<>>],
     rows        |-> ParseRows(rows)]

TableEntry(pt) == EntryOf(_axis_info(pt), pt.rows)

\* f"{sec}{bs}{op}" if sec and bs and op else None
KeyOf(sec, bs, op) == IF sec # <<>> /\ bs # <<>> /\ op # <<>> THEN sec \o bs \o op ELSE None

HeaderKey(header) ==
    KeyOf(HeaderLabel(header, "1").code, HeaderLabel(header, "2").code,
          HeaderLabel(header, "3").code)

\* key of a pcsTable, None when a header code is missing
TableKey(pt) == HeaderKey(_axis_info(pt))

\* one pcsTable of the loop: skipped without a key, else stored under its key
ParseStep(tables, key, pt) ==
    IF key = None THEN tables ELSE DictSet(tables, key, TableEntry(pt))

\* self.tables after _parse over the pcsTable elements, starting from tables
RECURSIVE _parse(_, _)
_parse(pcsTables, tables) ==
    IF pcsTables = <<>> THEN tables
    ELSE _parse(Tail(pcsTables), ParseStep(tables, TableKey(Head(pcsTables)), Head(pcsTables)))

\* PCSTables.from_path: the object, with its tables dict
PCSTables(doc) == [some |-> TRUE, tables |-> _parse(doc, <<>>)]

NoTables == [some |-> FALSE, tables |-> <<>>]

(***************************************************************************)
(* Lookup helpers (validation.py 92-184)                                   *)
(***************************************************************************)
\* RootMatches without the operation filter
RootMatchesNoOp(t, section_code, body_system_name, operation_name) ==
    /\ t.section.code = section_code
    /\ (Truthy(body_system_name) => _eq(t.body_system.text, body_system_name))

\* the test of one table in find_roots
RootMatches(t, section_code, body_system_name, operation_name) ==
    /\ t.section.code = section_code
    /\ (Truthy(body_system_name) => _eq(t.body_system.text, body_system_name))
    /\ (Truthy(operation_name) => _eq(t.operation.text, operation_name))

RECURSIVE find_roots(_, _, _, _)
find_roots(tables, section_code, body_system_name, operation_name) ==
    IF tables = <<>> THEN <<>>
    ELSE (IF RootMatches(Head(tables).v, section_code, body_system_name, operation_name)
          THEN <<Head(tables).k>> ELSE <<>>)
         \o find_roots(Tail(tables), section_code, body_system_name, operation_name)

sNoDevice == <<"N","o"," ","D","e","v","i","c","e">>
sNoQualifier == <<"N","o"," ","Q","u","a","l","i","f","i","e","r">>

\* index of the first TRUE of flags, 0 when there is none
FirstTrue(flags) ==
    IF \E i \in 1..Len(flags) : flags[i]
    THEN CHOOSE i \in 1..Len(flags) : flags[i] /\ \A j \in 1..(i - 1) : ~flags[j]
    ELSE 0

\* for each option, whether its text equals name
EqFlags(options, name) == [i \in 1..Len(options) |-> _eq(options[i].text, name)]

\* for each option, whether its text contains name or name contains its text
SubFlags(options, name) ==
    [i \in 1..Len(options) |->
        _contains(options[i].text, name) \/ _contains(name, options[i].text)]

\* PickAt trying the substring match before the exact match
PickAtSubFirst(options, want_name, iNoDev, iNoQual, iExact, iSub) ==
    IF options = <<>> THEN [label |-> NoLabel, score |-> 0]
    ELSE IF ~Truthy(want_name)
    THEN IF iNoDev # 0 THEN [label |-> options[iNoDev], score |-> 1]
         ELSE IF iNoQual # 0 THEN [label |-> options[iNoQual], score |-> 1]
         ELSE [label |-> options[1], score |-> 0]
    ELSE IF iSub # 0 THEN [label |-> options[iSub], score |-> IF iSub = iExact THEN 3 ELSE 2]
    ELSE [label |-> options[1], score |-> 0]

\* PickAt returning the first listed option whatever matched
PickAtFirst(options, want_name, iNoDev, iNoQual, iExact, iSub) ==
    IF options = <<>> THEN [label |-> NoLabel, score |-> 0]
    ELSE IF ~Truthy(want_name)
    THEN [label |-> options[1], score |-> IF iNoDev # 0 \/ iNoQual # 0 THEN 1 ELSE 0]
    ELSE [label |-> options[1], score |-> IF iExact # 0 THEN 3 ELSE IF iSub # 0 THEN 2 ELSE 0]

\* PickAt without the default preference for an omitted name
PickAtNoDefault(options, want_name, iNoDev, iNoQual, iExact, iSub) ==
    IF options = <<>> THEN [label |-> NoLabel, score |-> 0]
    ELSE IF ~Truthy(want_name) THEN [label |-> options[1], score |-> 0]
    ELSE IF iExact # 0 THEN [label |-> options[iExact], score |-> 3]
    ELSE IF iSub # 0 THEN [label |-> options[iSub], score |-> 2]
    ELSE [label |-> options[1], score |-> 0]

\* the returns of pick, given the index of the first option of each kind
PickAt(options, want_name, iNoDev, iNoQual, iExact, iSub) ==
    IF options = <<>> THEN [label |-> NoLabel, score |-> 0]
    ELSE IF ~Truthy(want_name)
    THEN IF iNoDev # 0 THEN [label |-> options[iNoDev], score |-> 1]
         ELSE IF iNoQual # 0 THEN [label |-> options[iNoQual], score |-> 1]
         ELSE [label |-> options[1], score |-> 0]
    ELSE IF iExact # 0 THEN [label |-> options[iExact], score |-> 3]
    ELSE IF iSub # 0 THEN [label |-> options[iSub], score |-> 2]
    ELSE [label |-> options[1], score |-> 0]

\* pick(options, want_name) -> (label or None, score)
pick(options, want_name) ==
    PickAt(options, want_name,
           FirstTrue(EqFlags(options, sNoDevice)), FirstTrue(EqFlags(options, sNoQualifier)),
           FirstTrue(EqFlags(options, want_name)), FirstTrue(SubFlags(options, want_name)))

\* row.get(pos, [])
RowGet(row, pos) == IF pos \in DOMAIN row THEN row[pos] ELSE <<>>

AxisPos == {"4", "5", "6", "7"}

\* the target name of each axis
WantOf(p, body_part_name, approach_name, device_name, qualifier_name) ==
    CASE p = "4" -> body_part_name
      [] p = "5" -> approach_name
      [] p = "6" -> device_name
      [] p = "7" -> qualifier_name

\* the four picks of one row and their scores (validation.py 158-161)
RowPicks(row, body_part_name, approach_name, device_name, qualifier_name) ==
    [p \in AxisPos |->
        pick(RowGet(row, p),
             WantOf(p, body_part_name, approach_name, device_name, qualifier_name))]

RowScore(picks) == picks["4"].score + picks["5"].score + picks["6"].score + picks["7"].score

RowChoice(picks) == [p \in AxisPos |-> picks[p].label]

AllPicked(choice) == \A p \in AxisPos : choice[p] # NoLabel

\* the 7-character code of table t with the picks of choice
CodeOf(t, choice) ==
    t.section.code \o t.body_system.code \o t.operation.code
      \o choice["4"].code \o choice["5"].code \o choice["6"].code \o choice["7"].code

\* RowStep letting a later row of equal score replace the best row
RowStepLast(t, st, score, choice) ==
    [best       |-> IF score >= st.best_score THEN choice ELSE st.best,
     has_best   |-> IF score >= st.best_score THEN TRUE ELSE st.has_best,
     best_score |-> IF score >= st.best_score THEN score ELSE st.best_score,
     alts       |-> Append(st.alts,
                           [code   |-> IF AllPicked(choice) THEN CodeOf(t, choice) ELSE None,
                            score  |-> score,
                            labels |-> choice])]

\* RowStep keeping the approach pick of the row that was best before
RowStepStale(t, st, score, choice) ==
    [best       |-> IF score > st.best_score
                    THEN [p \in AxisPos |-> IF p = "5" /\ st.has_best THEN st.best[p]
                                            ELSE choice[p]]
                    ELSE st.best,
     has_best   |-> IF score > st.best_score THEN TRUE ELSE st.has_best,
     best_score |-> IF score > st.best_score THEN score ELSE st.best_score,
     alts       |-> Append(st.alts,
                           [code   |-> IF AllPicked(choice) THEN CodeOf(t, choice) ELSE None,
                            score  |-> score,
                            labels |-> choice])]

\* one row of the loop (validation.py 162-177) applied to the state [best, best_score, alts]
RowStep(t, st, score, choice) ==
    [best       |-> IF score > st.best_score THEN choice ELSE st.best,
     has_best   |-> IF score > st.best_score THEN TRUE ELSE st.has_best,
     best_score |-> IF score > st.best_score THEN score ELSE st.best_score,
     alts       |-> Append(st.alts,
                           [code   |-> IF AllPicked(choice) THEN CodeOf(t, choice) ELSE None,
                            score  |-> score,
                            labels |-> choice])]

RowStepOf(t, st, picks) == RowStep(t, st, RowScore(picks), RowChoice(picks))

\* the loop over t["rows"] (validation.py 126-177)
RECURSIVE RowLoop(_, _, _, _, _, _, _)
RowLoop(t, rows, st, body_part_name, approach_name, device_name, qualifier_name) ==
    IF rows = <<>> THEN st
    ELSE RowLoop(t, Tail(rows),
                 RowStepOf(t, st, RowPicks(Head(rows), body_part_name, approach_name,
                                           device_name, qualifier_name)),
                 body_part_name, approach_name, device_name, qualifier_name)

\* {} as chosen_labels
EmptyChosen == [p \in {} |-> NoLabel]

\* BestResult falling back on the first row that has a code when the best row has none
BestResultAnyRow(t, st) ==
    IF st.has_best /\ AllPicked(st.best)
    THEN [code |-> CodeOf(t, st.best), chosen |-> st.best, alts |-> st.alts]
    ELSE IF \E j \in 1..Len(st.alts) : st.alts[j].code # None
    THEN LET j == CHOOSE j \in 1..Len(st.alts) :
                     st.alts[j].code # None /\ \A k \in 1..(j - 1) : st.alts[k].code = None
         IN [code |-> st.alts[j].code, chosen |-> st.alts[j].labels, alts |-> st.alts]
    ELSE [code |-> None, chosen |-> EmptyChosen, alts |-> st.alts]

\* BestResult building a code from the best row whether or not every axis has a pick
BestResultPartial(t, st) ==
    IF st.has_best
    THEN [code |-> CodeOf(t, st.best), chosen |-> st.best, alts |-> st.alts]
    ELSE [code |-> None, chosen |-> EmptyChosen, alts |-> st.alts]

\* the return of best_match_row after the loop (validation.py 179-184)
BestResult(t, st) ==
    IF st.has_best /\ AllPicked(st.best)
    THEN [code |-> CodeOf(t, st.best), chosen |-> st.best, alts |-> st.alts]
    ELSE [code |-> None, chosen |-> EmptyChosen, alts |-> st.alts]

BestOfTable(t, body_part_name, approach_name, device_name, qualifier_name) ==
    BestResult(t, RowLoop(t, t.rows,
                          [best |-> EmptyChosen, has_best |-> FALSE, best_score |-> -1,
                           alts |-> <<>>],
                          body_part_name, approach_name, device_name, qualifier_name))

\* best_match_row -> (code, chosen_labels, alternates)
best_match_row(tables, root_key, body_part_name, approach_name, device_name, qualifier_name) ==
    IF ~DictHas(tables, root_key)
    THEN [code |-> None, chosen |-> EmptyChosen, alts |-> <<>>]
    ELSE BestOfTable(DictGet(tables, root_key, NoLabel), body_part_name, approach_name,
                     device_name, qualifier_name)

(***************************************************************************)
(* Index parser (validation.py 188-218).  The index source is the sequence *)
(* of its mainTerm elements [title, codes] in document order.              *)
(***************************************************************************)
DefaultLimit == 10

\* the codes of one matching mainTerm appended to leads; done once the limit is reached
RECURSIVE CollectCodes(_, _, _)
CollectCodes(codes, st, limit) ==
    IF codes = <<>> \/ st.done THEN st
    ELSE LET c == strip(IF Truthy(Head(codes)) THEN Head(codes) ELSE <<>>)
         IN IF c # <<>> /\ ~InList(c, st.leads)
            THEN CollectCodes(Tail(codes),
                              [leads |-> Append(st.leads, c),
                               done  |-> Len(st.leads) + 1 >= limit], limit)
            ELSE CollectCodes(Tail(codes), st, limit)

RECURSIVE TermLoop(_, _, _, _)
TermLoop(terms, t, st, limit) ==
    IF terms = <<>> \/ st.done THEN st
    ELSE LET title == strip(IF Truthy(Head(terms).title) THEN Head(terms).title ELSE <<>>)
         IN IF title # <<>> /\ InStr(lower(title), t)
            THEN TermLoop(Tail(terms), t, CollectCodes(Head(terms).codes, st, limit), limit)
            ELSE TermLoop(Tail(terms), t, st, limit)

find_leads_in_text(index, text, limit) ==
    TermLoop(index.terms, lower(IF Truthy(text) THEN text ELSE <<>>),
             [leads |-> <<>>, done |-> FALSE], limit).leads

PCSIndex(doc) == [some |-> TRUE, terms |-> doc]

NoIndex == [some |-> FALSE, terms |-> <<>>]

(***************************************************************************)
(* Synonym and aggregation keys (validation.py 224-272).  A JSON object is *)
(* a dict; a record of the aggregation file is                             *)
(* [specific_device, general_device].                                      *)
(***************************************************************************)
StripAll(names) == [i \in 1..Len(names) |-> strip(names[i])]

\* the map built from {"data": {synonym: [names]}}, keys stripped and lower-cased
RECURSIVE KeyMap(_, _)
KeyMap(raw, map) ==
    IF raw = <<>> THEN map
    ELSE KeyMap(Tail(raw), DictSet(map, lower(strip(Head(raw).k)), StripAll(Head(raw).v)))

BodyPartKey(data) == [some |-> TRUE, map |-> KeyMap(DictGet(data, "data", <<>>), <<>>)]

DeviceKey(data) == [some |-> TRUE, map |-> KeyMap(DictGet(data, "data", <<>>), <<>>)]

NoKey == [some |-> FALSE, map |-> <<>>]

\* lookup keyed by the lower-cased name, not stripped
lookupNoStrip(key, name) ==
    IF ~Truthy(name) THEN <<>> ELSE DictGet(key.map, lower(name), <<name>>)

\* BodyPartKey.lookup / DeviceKey.lookup
lookup(key, name) ==
    IF ~Truthy(name) THEN <<>> ELSE DictGet(key.map, lower(strip(name)), <<name>>)

\* to_general: specific device -> set of general devices
RECURSIVE ToGeneral(_, _)
ToGeneral(recs, to_general) ==
    IF recs = <<>> THEN to_general
    ELSE LET spec == strip(IF Truthy(Head(recs).specific_device)
                           THEN Head(recs).specific_device ELSE <<>>)
             gen  == strip(IF Truthy(Head(recs).general_device)
                           THEN Head(recs).general_device ELSE <<>>)
         IN IF spec # <<>> /\ gen # <<>>
            THEN ToGeneral(Tail(recs),
                           DictSet(to_general, spec, DictGet(to_general, spec, {}) \cup {gen}))
            ELSE ToGeneral(Tail(recs), to_general)

Perms(S) == {f \in [1..Cardinality(S) -> S] : \A i, j \in 1..Cardinality(S) : i # j => f[i] # f[j]}

\* every iteration order the sets of to_general can have: spec -> list(set)
SetOrders(to_general) ==
    LET allPerms == UNION {Perms(to_general[i].v) : i \in 1..Len(to_general)}
    IN {[i \in 1..Len(to_general) |-> [k |-> to_general[i].k, v |-> g[i]]] :
          g \in {h \in [1..Len(to_general) -> allPerms] :
                    \A i \in 1..Len(to_general) : h[i] \in Perms(to_general[i].v)}}

\* the object; iter is the order in which each of its sets iterates
DeviceAggregation(data, iter) ==
    [some |-> TRUE, to_general |-> ToGeneral(DictGet(data, "records", <<>>), <<>>),
     iter |-> iter]

NoAgg == [some |-> FALSE, to_general |-> <<>>, iter |-> <<>>]

\* DeviceAggregation.generalize: list(self.to_general.get(name, []))
generalize(agg, name) ==
    IF ~Truthy(name) THEN <<>>
    ELSE IF DictHas(agg.to_general, name) THEN DictGet(agg.iter, name, <<>>) ELSE <<>>

(***************************************************************************)
(* TablesContext (validation.py 276-304).  An assets directory is a record *)
(* of its five files, each [exists, content].                              *)
(***************************************************************************)
NoFile == [exists |-> FALSE, content |-> <<>>]

File(content) == [exists |-> TRUE, content |-> content]

\* the context with its fields set by load()
ContextOf(tables, index, body_key, device_key, device_agg) ==
    [some |-> TRUE, tables |-> tables, index |-> index, body_key |-> body_key,
     device_key |-> device_key, device_agg |-> device_agg, loaded |-> tables.some]

\* the context as __init__ sets it before it calls load(): every field None
BlankContext == ContextOf(NoTables, NoIndex, NoKey, NoKey, NoAgg)

\* a key file is used when it exists and its JSON value is truthy
UsedJson(file) == file.exists /\ file.content # <<>>

\* the assignments of load(), in the order in which it makes them: a field whose file
\* exists (a key file: exists with a truthy JSON value) is assigned anew, a field whose
\* file is missing keeps its value
LoadTables(context, dir) ==
    IF dir.tables_xml.exists
    THEN [context EXCEPT !.tables = PCSTables(dir.tables_xml.content)] ELSE context

LoadIndex(context, dir) ==
    IF dir.index_xml.exists
    THEN [context EXCEPT !.index = PCSIndex(dir.index_xml.content)] ELSE context

LoadBodyKey(context, dir) ==
    IF UsedJson(dir.body_part_key)
    THEN [context EXCEPT !.body_key = BodyPartKey(dir.body_part_key.content)] ELSE context

LoadDeviceKey(context, dir) ==
    IF UsedJson(dir.device_key)
    THEN [context EXCEPT !.device_key = DeviceKey(dir.device_key.content)] ELSE context

LoadDeviceAgg(context, dir, iter) ==
    IF UsedJson(dir.device_aggregation)
    THEN [context EXCEPT
            !.device_agg = DeviceAggregation(dir.device_aggregation.content, iter)]
    ELSE context

\* self.loaded = self.tables is not None
SetLoaded(context) == [context EXCEPT !.loaded = context.tables.some]

\* context after context.load() with the files of dir in its assets directory
load(context, dir, iter) ==
    SetLoaded(LoadDeviceAgg(LoadDeviceKey(LoadBodyKey(LoadIndex(LoadTables(context, dir),
                                                                dir), dir), dir), dir, iter))

\* TablesContext(assets_dir) after __init__, i.e. after load()
TablesContext(dir, iter) == load(BlankContext, dir, iter)

\* for each field of the context the file it was last read from, after a load() with the
\* files of dir: the file of dir where load() reads one, the earlier file elsewhere
FilesAfterLoad(files, dir) ==
    [tables_xml         |-> IF dir.tables_xml.exists THEN dir.tables_xml ELSE files.tables_xml,
     index_xml          |-> IF dir.index_xml.exists THEN dir.index_xml ELSE files.index_xml,
     body_part_key      |-> IF UsedJson(dir.body_part_key) THEN dir.body_part_key
                            ELSE files.body_part_key,
     device_key         |-> IF UsedJson(dir.device_key) THEN dir.device_key
                            ELSE files.device_key,
     device_aggregation |-> IF UsedJson(dir.device_aggregation) THEN dir.device_aggregation
                            ELSE files.device_aggregation]

\* context = None
NoContext ==
    [some |-> FALSE, tables |-> NoTables, index |-> NoIndex, body_key |-> NoKey,
     device_key |-> NoKey, device_agg |-> NoAgg, loaded |-> FALSE]

(***************************************************************************)
(* Normalization helpers (validation.py 308-334)                           *)
(***************************************************************************)
\* lst or [name]
OrName(lst, name) == IF lst # <<>> THEN lst ELSE <<name>>

_norm_body_part(context, name) ==
    IF ~Truthy(name) THEN <<>>
    ELSE IF context.some /\ context.body_key.some
    THEN OrName(lookup(context.body_key, name), name)
    ELSE <<name>>

RECURSIVE GeneralizeAll(_, _)
GeneralizeAll(agg, candidates) ==
    IF candidates = <<>> THEN <<>>
    ELSE generalize(agg, Head(candidates)) \o GeneralizeAll(agg, Tail(candidates))

\* the truthy values of lst, first occurrences only, appended to out
RECURSIVE DeDup(_, _)
DeDup(lst, out) ==
    IF lst = <<>> THEN out
    ELSE DeDup(Tail(lst),
               IF Truthy(Head(lst)) /\ ~InList(Head(lst), out) THEN Append(out, Head(lst))
               ELSE out)

\* candidates and more of _norm_device (validation.py 321-328)
DeviceCandidates(context, name) ==
    IF context.some /\ context.device_key.some
    THEN OrName(lookup(context.device_key, name), name)
    ELSE <<name>>

\* MoreOf putting the generalizations before the candidates
MoreOfGeneralFirst(context, candidates) ==
    (IF context.some /\ context.device_agg.some
     THEN GeneralizeAll(context.device_agg, candidates) ELSE <<>>) \o candidates

MoreOf(context, candidates) ==
    candidates \o (IF context.some /\ context.device_agg.some
                   THEN GeneralizeAll(context.device_agg, candidates) ELSE <<>>)

_norm_device(context, name) ==
    IF ~Truthy(name) THEN <<>>
    ELSE DeDup(MoreOf(context, DeviceCandidates(context, name)), <<>>)

\* StoreAfterNormDevice with the expanded list written back into the device dictionary
\* (the list lookup returns is the stored one; extending it in place would do this)
StoreAfterNormDeviceInPlace(context, name) ==
    IF context.some /\ context.device_key.some /\ Truthy(name)
       /\ DictGet(context.device_key.map, lower(strip(name)), <<>>) # <<>>
    THEN [context EXCEPT !.device_key.map =
             DictSet(@, lower(strip(name)), _norm_device(context, name))]
    ELSE context

\* the context after _norm_device(context, name): candidates aliases the list stored in
\* the device dictionary, but list(candidates) and candidates + more build new lists and
\* nothing is assigned to the context
StoreAfterNormDevice(context, name) == context

(***************************************************************************)
(* resolve_code (validation.py 338-427)                                    *)
(***************************************************************************)
TopN == 5

sZero == <<"0">>

sTablesNotLoaded == <<"T","a","b","l","e","s"," ","n","o","t"," ","l","o","a","d","e","d",".">>

\* LeadRoots keeping the leads of every section
RECURSIVE LeadRootsAnySection(_, _, _)
LeadRootsAnySection(leads, tables, roots) ==
    IF leads = <<>> THEN roots
    ELSE LET rt == Prefix(Head(leads), 3)
         IN LeadRootsAnySection(Tail(leads), tables,
                                IF ~InList(rt, roots) /\ DictHas(tables, rt)
                                THEN Append(roots, rt) ELSE roots)

\* leads cut to 3 characters, kept when they start with '0', are new and are table keys
RECURSIVE LeadRoots(_, _, _)
LeadRoots(leads, tables, roots) ==
    IF leads = <<>> THEN roots
    ELSE LET rt == Prefix(Head(leads), 3)
         IN LeadRoots(Tail(leads), tables,
                      IF StartsWith(rt, sZero) /\ ~InList(rt, roots) /\ DictHas(tables, rt)
                      THEN Append(roots, rt) ELSE roots)

\* WithFallback consulting the index whether or not the header match found roots
WithFallbackAlways(context, roots, note_text) ==
    IF Truthy(note_text) /\ context.index.some
    THEN LeadRoots(find_leads_in_text(context.index, note_text, DefaultLimit),
                   context.tables.tables, <<>>)
    ELSE roots

\* step 2: the index leads, taken when the header match found no root
WithFallback(context, roots, note_text) ==
    IF roots = <<>> /\ Truthy(note_text) /\ context.index.some
    THEN LeadRoots(find_leads_in_text(context.index, note_text, DefaultLimit),
                   context.tables.tables, <<>>)
    ELSE roots

\* steps 1 and 2: the header match, else the index leads
RootsOf(context, body_system_name, root_operation_name, note_text) ==
    WithFallback(context,
                 find_roots(context.tables.tables, sZero, body_system_name,
                            root_operation_name),
                 note_text)

\* sum(1 for k, v in chosen.items() if v)
ChosenCount(chosen) == Cardinality({p \in DOMAIN chosen : chosen[p] # NoLabel})

\* bp_list or [None]
OrNone(lst) == IF lst = <<>> THEN <<None>> ELSE lst

\* TrialStep taking the chosen labels of every trial that has a code, the code of the best
TrialStepStaleChoice(r, st) ==
    IF Truthy(r.code) /\ ChosenCount(r.chosen) > st.score
    THEN [code |-> r.code, chosen |-> r.chosen, alts |-> r.alts,
          score |-> ChosenCount(r.chosen)]
    ELSE IF Truthy(r.code) THEN [st EXCEPT !.chosen = r.chosen]
    ELSE st

\* the update of the trial state st by the return r of best_match_row (validation.py 391-397)
TrialStep(r, st) ==
    IF Truthy(r.code) /\ ChosenCount(r.chosen) > st.score
    THEN [code |-> r.code, chosen |-> r.chosen, alts |-> r.alts,
          score |-> ChosenCount(r.chosen)]
    ELSE st

\* one trial of the double loop (validation.py 384-397) applied to the trial state st
Trial(tables, rt, bp, dv, approach_name, qualifier_name, st) ==
    TrialStep(best_match_row(tables, rt, bp, approach_name, dv, qualifier_name), st)

RECURSIVE DevLoop(_, _, _, _, _, _, _)
DevLoop(tables, rt, bp, devs, approach_name, qualifier_name, st) ==
    IF devs = <<>> THEN st
    ELSE DevLoop(tables, rt, bp, Tail(devs), approach_name, qualifier_name,
                 Trial(tables, rt, bp, Head(devs), approach_name, qualifier_name, st))

RECURSIVE TrialLoop(_, _, _, _, _, _, _)
TrialLoop(tables, rt, bps, devs, approach_name, qualifier_name, st) ==
    IF bps = <<>> THEN st
    ELSE TrialLoop(tables, rt, Tail(bps), devs, approach_name, qualifier_name,
                   DevLoop(tables, rt, Head(bps), devs, approach_name, qualifier_name, st))

\* the candidate dict of root rt (validation.py 401-423)
Candidate(t, rt, code, chosen) ==
    LET codeAt(p) == IF p \in DOMAIN chosen /\ chosen[p] # NoLabel THEN chosen[p].code ELSE None
        textAt(p) == IF p \in DOMAIN chosen /\ chosen[p] # NoLabel THEN chosen[p].text ELSE None
    IN [pcs_code   |-> code,
        components |-> [section |-> t.section.code, body_system |-> t.body_system.code,
                        root_operation |-> t.operation.code,
                        body_part |-> codeAt("4"), approach |-> codeAt("5"),
                        device |-> codeAt("6"), qualifier |-> codeAt("7")],
        labels     |-> [section |-> t.section.text, body_system |-> t.body_system.text,
                        root_operation |-> t.operation.text,
                        body_part |-> textAt("4"), approach |-> textAt("5"),
                        device |-> textAt("6"), qualifier |-> textAt("7")],
        score      |-> ChosenCount(chosen),
        root_key   |-> rt]

\* the candidates a root adds: one when its best trial has a code
CandidateOf(t, rt, best) ==
    IF Truthy(best.code) THEN <<Candidate(t, rt, best.code, best.chosen)>> ELSE <<>>

\* the best trial of root rt
BestTrial(context, rt, body_part_name, approach_name, device_name, qualifier_name) ==
    TrialLoop(context.tables.tables, rt,
              OrNone(_norm_body_part(context, body_part_name)),
              OrNone(_norm_device(context, device_name)),
              approach_name, qualifier_name,
              [code |-> None, chosen |-> EmptyChosen, alts |-> <<>>, score |-> -1])

\* the loop over roots (validation.py 374-423)
RECURSIVE CandidatesOf(_, _, _, _, _, _)
CandidatesOf(context, roots, body_part_name, approach_name, device_name, qualifier_name) ==
    IF roots = <<>> THEN <<>>
    ELSE CandidateOf(DictGet(context.tables.tables, Head(roots), NoLabel), Head(roots),
                     BestTrial(context, Head(roots), body_part_name, approach_name,
                               device_name, qualifier_name))
         \o CandidatesOf(context, Tail(roots), body_part_name, approach_name, device_name,
                         qualifier_name)

\* (a["score"], a["pcs_code"]) < (b["score"], b["pcs_code"])
KeyLess(a, b) == a.score < b.score \/ (a.score = b.score /\ StrLess(a.pcs_code, b.pcs_code))

\* x put into a list sorted in descending key order, behind the entries of equal key
RECURSIVE InsertDesc(_, _)
InsertDesc(x, sorted) ==
    IF sorted = <<>> THEN <<x>>
    ELSE IF KeyLess(Head(sorted), x) THEN <<x>> \o sorted
    ELSE <<Head(sorted)>> \o InsertDesc(x, Tail(sorted))

\* candidates.sort(key=lambda x: (x["score"], x["pcs_code"]), reverse=True), a stable sort
RECURSIVE SortDescFrom(_, _)
SortDescFrom(candidates, sorted) ==
    IF candidates = <<>> THEN sorted
    ELSE SortDescFrom(Tail(candidates), InsertDesc(Head(candidates), sorted))

\* resolve_code returning the whole ranked list
resolve_codeNoCut(context, section_name, body_system_name, root_operation_name, body_part_name, approach_name, device_name, qualifier_name, note_text) ==
    IF ~context.some \/ ~context.tables.some
    THEN [ok |-> FALSE, error |-> sTablesNotLoaded, candidates |-> <<>>]
    ELSE [ok |-> TRUE, error |-> None,
          candidates |->
              SortDescFrom(
                  CandidatesOf(context,
                               RootsOf(context, body_system_name, root_operation_name,
                                       note_text),
                               body_part_name, approach_name, device_name,
                               qualifier_name),
                  <<>>)]

\* resolve_code reporting an empty candidate list as an error
resolve_codeNoMatchError(context, section_name, body_system_name, root_operation_name, body_part_name, approach_name, device_name, qualifier_name, note_text) ==
    IF ~context.some \/ ~context.tables.some
       \/ CandidatesOf(context,
                       RootsOf(context, body_system_name, root_operation_name, note_text),
                       body_part_name, approach_name, device_name, qualifier_name) = <<>>
    THEN [ok |-> FALSE, error |-> sTablesNotLoaded, candidates |-> <<>>]
    ELSE [ok |-> TRUE, error |-> None,
          candidates |->
              Prefix(SortDescFrom(
                         CandidatesOf(context,
                                      RootsOf(context, body_system_name, root_operation_name,
                                              note_text),
                                      body_part_name, approach_name, device_name,
                                      qualifier_name),
                         <<>>),
                     TopN)]

\* resolve_code testing the context only, not its tables
resolve_codeNoTablesTest(context, section_name, body_system_name, root_operation_name, body_part_name, approach_name, device_name, qualifier_name, note_text) ==
    IF ~context.some
    THEN [ok |-> FALSE, error |-> sTablesNotLoaded, candidates |-> <<>>]
    ELSE [ok |-> TRUE, error |-> None,
          candidates |->
              Prefix(SortDescFrom(
                         CandidatesOf(context,
                                      RootsOf(context, body_system_name, root_operation_name,
                                              note_text),
                                      body_part_name, approach_name, device_name,
                                      qualifier_name),
                         <<>>),
                     TopN)]

resolve_code(context, section_name, body_system_name, root_operation_name, body_part_name, approach_name, device_name, qualifier_name, note_text) ==
    IF ~context.some \/ ~context.tables.some
    THEN [ok |-> FALSE, error |-> sTablesNotLoaded, candidates |-> <<>>]
    ELSE [ok |-> TRUE, error |-> None,
          candidates |->
              Prefix(SortDescFrom(
                         CandidatesOf(context,
                                      RootsOf(context, body_system_name, root_operation_name,
                                              note_text),
                                      body_part_name, approach_name, device_name,
                                      qualifier_name),
                         <<>>),
                     TopN)]

(***************************************************************************)
(* The reference data of the model: texts, table sources, index source,    *)
(* key files and the assets directories built from them.                   *)
(***************************************************************************)
sMedSurg == <<"M","e","d","i","c","a","l"," ","a","n","d"," ","S","u","r","g","i","c","a","l">>
sImaging == <<"I","m","a","g","i","n","g">>
sHepato ==
    <<"H","e","p","a","t","o","b","i","l","i","a","r","y"," ","S","y","s","t","e","m"," ","a",
      "n","d"," ","P","a","n","c","r","e","a","s">>
sHepatoLower ==
    <<"h","e","p","a","t","o","b","i","l","i","a","r","y"," ","s","y","s","t","e","m"," ","a",
      "n","d"," ","p","a","n","c","r","e","a","s">>
sGastro ==
    <<"G","a","s","t","r","o","i","n","t","e","s","t","i","n","a","l"," ","S","y","s","t","e",
      "m">>
sResection == <<"R","e","s","e","c","t","i","o","n">>
sResectionWs == <<" ","R","E","S","E","C","T","I","O","N"," ">>
sExcision == <<"E","x","c","i","s","i","o","n">>
sDrainage == <<"D","r","a","i","n","a","g","e">>
sPlain == <<"P","l","a","i","n"," ","R","a","d","i","o","g","r","a","p","h","y">>
sCutAll ==
    <<"C","u","t","t","i","n","g"," ","o","u","t"," ","a","l","l"," ","o","f"," ","a"," ","b",
      "o","d","y"," ","p","a","r","t">>
sGallbladder == <<"G","a","l","l","b","l","a","d","d","e","r">>
sGallbladderRaw == <<" ","G","a","l","l","b","l","a","d","d","e","r"," ">>
sGB == <<"G","B">>
sGbKey == <<" ","G","b"," ">>
sLiver == <<"L","i","v","e","r">>
sHepar == <<"h","e","p","a","r">>
sBile == <<"b","i","l","e">>
sStomach == <<"S","t","o","m","a","c","h">>
sOpen == <<"O","p","e","n">>
sPercEndo ==
    <<"P","e","r","c","u","t","a","n","e","o","u","s"," ","E","n","d","o","s","c","o","p","i",
      "c">>
sPerc == <<"P","e","r","c","u","t","a","n","e","o","u","s">>
sDrainDev == <<"D","r","a","i","n","a","g","e"," ","D","e","v","i","c","e">>
sStent == <<"S","t","e","n","t">>
sPigtail == <<"P","i","g","t","a","i","l">>
sPig == <<"p","i","g">>
sPigtailCath == <<"P","i","g","t","a","i","l"," ","C","a","t","h","e","t","e","r">>
sDiagnostic == <<"D","i","a","g","n","o","s","t","i","c">>
sNoDeviceLower == <<"n","o"," ","d","e","v","i","c","e">>
sSecName == <<"0"," ","M","e","d","i","c","a","l">>
sSecOther == <<"B"," ","I","m","a","g","i","n","g">>
sNoteChole == <<"L","a","p"," ","c","h","o","l","e","c","y","s","t","e","c","t","o","m","y">>
sCholecystectomy == <<"C","h","o","l","e","c","y","s","t","e","c","t","o","m","y">>
sGastrectomy == <<"G","a","s","t","r","e","c","t","o","m","y">>
sLap == <<"l","a","p">>
sNoteRest == <<"R","e","s","t">>
sBodyPart == <<"B","o","d","y"," ","P","a","r","t">>
sInspection == <<"I","n","s","p","e","c","t","i","o","n">>
sPylorus == <<"P","y","l","o","r","u","s">>
sOld == <<"o","l","d">>
sNil == <<"n","i","l">>
sDrain == <<"d","r","a","i","n">>
sPercWs == <<" ","P","E","R","C","U","T","A","N","E","O","U","S"," ">>
sBlank == <<" ">>

Lab(c, text) == [code |-> <<c>>, text |-> text]

Ax(pos, title, definition, labels) ==
    [pos |-> pos, title |-> title, definition |-> definition, labels |-> labels]

Header(sec, bs, op) ==
    <<Ax("1", <<>>, <<>>, <<sec>>), Ax("2", <<>>, <<>>, <<bs>>), Ax("3", <<>>, sCutAll, <<op>>)>>

Row4(bparts, apprs, devs, quals) ==
    <<Ax("4", sBodyPart, <<>>, bparts), Ax("5", <<>>, <<>>, apprs), Ax("6", <<>>, <<>>, devs),
      Ax("7", <<>>, <<>>, quals)>>

\* the single root of the 0FT scenario
Table0FTScenario ==
    [axes |-> Header(Lab("0", sMedSurg), Lab("F", sHepato), Lab("T", sResection)),
     rows |-> <<Row4(<<Lab("4", sGallbladder)>>,
                     <<Lab("0", sOpen), Lab("4", sPercEndo)>>,
                     <<Lab("Z", sNoDevice)>>,
                     <<Lab("Z", sNoQualifier)>>)>>]

Table0FT ==
    [axes |-> Header(Lab("0", sMedSurg), Lab("F", sHepato), Lab("T", sResection)),
     rows |-> <<Row4(<<Lab("0", sLiver), Lab("4", sGallbladderRaw)>>,
                     <<Lab("0", sOpen), Lab("4", sPercEndo)>>,
                     <<Lab("Z", sNoDevice)>>,
                     <<Lab("Z", sNoQualifier)>>)>>]

Table0FB ==
    [axes |-> Header(Lab("0", sMedSurg), Lab("F", sHepato), Lab("B", sExcision)),
     rows |-> <<Row4(<<Lab("0", sLiver)>>,
                     <<Lab("0", sOpen), Lab("3", sPerc)>>,
                     <<Lab("Z", sNoDevice)>>,
                     <<Lab("X", sDiagnostic), Lab("Z", sNoQualifier)>>),
                Row4(<<Lab("4", sGallbladder)>>,
                     <<Lab("0", sOpen)>>,
                     <<Lab("Z", sNoDevice)>>,
                     <<Lab("Z", sNoQualifier)>>)>>]

\* its first row has no qualifier axis; its second lists No Device behind another device
Table0F9 ==
    [axes |-> Header(Lab("0", sMedSurg), Lab("F", sHepato), Lab("9", sDrainage)),
     rows |-> <<<<Ax("4", sBodyPart, <<>>, <<Lab("4", sGallbladder)>>),
                  Ax("5", <<>>, <<>>, <<Lab("0", sOpen)>>),
                  Ax("6", <<>>, <<>>, <<Lab("1", sPigtailCath)>>)>>,
                Row4(<<Lab("4", sGallbladder)>>,
                     <<Lab("0", sOpen)>>,
                     <<Lab("0", sDrainDev), Lab("Z", sNoDevice)>>,
                     <<Lab("Z", sNoQualifier)>>),
                Row4(<<Lab("4", sGallbladder)>>,
                     <<Lab("0", sOpen)>>,
                     <<Lab("D", sStent)>>,
                     <<Lab("Z", sNoQualifier)>>)>>]

Table0DT ==
    [axes |-> Header(Lab("0", sMedSurg), Lab("D", sGastro), Lab("T", sResection)),
     rows |-> <<Row4(<<Lab("6", sStomach)>>,
                     <<Lab("0", sOpen), Lab("4", sPercEndo), Lab("3", sPerc)>>,
                     <<Lab("Z", sNoDevice)>>,
                     <<Lab("Z", sNoQualifier)>>)>>]

\* its rows tie for a device name they do not list; only the second lists Drainage Device
Table0D9 ==
    [axes |-> Header(Lab("0", sMedSurg), Lab("D", sGastro), Lab("9", sDrainage)),
     rows |-> <<Row4(<<Lab("6", sStomach)>>,
                     <<Lab("0", sOpen)>>,
                     <<Lab("Z", sNoDevice)>>,
                     <<Lab("Z", sNoQualifier)>>),
                Row4(<<Lab("6", sStomach)>>,
                     <<Lab("0", sOpen)>>,
                     <<Lab("0", sDrainDev)>>,
                     <<Lab("Z", sNoQualifier)>>)>>]

Table0DB ==
    [axes |-> Header(Lab("0", sMedSurg), Lab("D", sGastro), Lab("B", sExcision)),
     rows |-> <<Row4(<<Lab("6", sStomach)>>,
                     <<Lab("0", sOpen)>>,
                     <<Lab("Z", sNoDevice)>>,
                     <<Lab("Z", sNoQualifier)>>)>>]

\* a second table of the root 0DB, with another body part
Table0DBSecond ==
    [axes |-> Header(Lab("0", sMedSurg), Lab("D", sGastro), Lab("B", sExcision)),
     rows |-> <<Row4(<<Lab("7", sPylorus)>>,
                     <<Lab("0", sOpen)>>,
                     <<Lab("Z", sNoDevice)>>,
                     <<Lab("X", sDiagnostic), Lab("Z", sNoQualifier)>>)>>]

\* a table whose only pcsRow has no axis: it is stored without rows
Table0DJ ==
    [axes |-> Header(Lab("0", sMedSurg), Lab("D", sGastro), Lab("J", sInspection)),
     rows |-> << <<>> >>]

\* a table of another section with the body system text of the 0F tables
TableBF1 ==
    [axes |-> Header(Lab("B", sImaging), Lab("F", sHepato), Lab("1", sPlain)),
     rows |-> <<Row4(<<Lab("0", sLiver)>>,
                     <<Lab("0", sOpen)>>,
                     <<Lab("Z", sNoDevice)>>,
                     <<Lab("Z", sNoQualifier)>>)>>]

\* a table without an operation axis
TableNoOp ==
    [axes |-> <<Ax("1", <<>>, <<>>, <<Lab("0", sMedSurg)>>),
                Ax("2", <<>>, <<>>, <<Lab("F", sHepato)>>)>>,
     rows |-> <<>>]

\* a table whose body system axis lists two labels
TableBF2 ==
    [axes |-> <<Ax("1", <<>>, <<>>, <<Lab("B", sImaging)>>),
                Ax("2", <<>>, <<>>, <<Lab("F", sHepato), Lab("D", sGastro)>>),
                Ax("3", <<>>, <<>>, <<Lab("2", sInspection)>>)>>,
     rows |-> <<Row4(<<Lab("0", sLiver)>>,
                     <<Lab("0", sOpen)>>,
                     <<Lab("Z", sNoDevice)>>,
                     <<Lab("Z", sNoQualifier)>>)>>]

\* a table whose operation axis lists no label
TableNoLabel ==
    [axes |-> <<Ax("1", <<>>, <<>>, <<Lab("0", sMedSurg)>>),
                Ax("2", <<>>, <<>>, <<Lab("F", sHepato)>>),
                Ax("3", <<>>, sCutAll, <<>>)>>,
     rows |-> <<Row4(<<Lab("0", sLiver)>>,
                     <<Lab("0", sOpen)>>,
                     <<Lab("Z", sNoDevice)>>,
                     <<Lab("Z", sNoQualifier)>>)>>]

ScenarioTables == <<Table0FTScenario>>

FullTables ==
    <<Table0FT, TableBF1, Table0FB, TableNoOp, Table0F9, Table0DT, Table0DB, Table0D9, Table0DJ,
      Table0DBSecond, TableBF2, TableNoLabel>>

IndexDoc ==
    <<[title |-> sCholecystectomy, codes |-> <<<<"0","F","T","4">>, <<"0","F","B","4">>>>],
      [title |-> None, codes |-> <<<<"0","D","T">>>>],
      [title |-> sGastrectomy, codes |-> <<<<"0","D","T","6">>>>],
      [title |-> sLap,
       codes |-> <<<<" ","0","F","9"," ">>, <<"0","F","T","4">>, <<"B","F","1">>,
                   <<"0","Z","Z","9">>, None>>]>>

BodyKeyJson ==
    <<[k |-> "data",
       v |-> <<[k |-> sGbKey, v |-> <<sGallbladderRaw>>],
               [k |-> sHepar, v |-> <<sLiver, sGallbladder>>],
               [k |-> sBile, v |-> <<>>]>>]>>

DeviceKeyJson ==
    <<[k |-> "data",
       v |-> <<[k |-> sPig, v |-> <<sPigtail>>],
               [k |-> sOld, v |-> <<>>],
               [k |-> sNil, v |-> <<<<" ">>>>],
               [k |-> sDrain, v |-> <<sStent, sDrainDev, sStent>>]>>]>>

AggJson ==
    <<[k |-> "records",
       v |-> <<[specific_device |-> sPigtail, general_device |-> sDrainDev],
               [specific_device |-> sPigtail, general_device |-> sStent],
               [specific_device |-> None, general_device |-> sStent],
               [specific_device |-> sStent, general_device |-> sDrainDev]>>]>>

DirEmpty ==
    [tables_xml |-> NoFile, index_xml |-> NoFile, body_part_key |-> NoFile,
     device_key |-> NoFile, device_aggregation |-> NoFile]

DirScenario ==
    [tables_xml |-> File(ScenarioTables), index_xml |-> NoFile, body_part_key |-> NoFile,
     device_key |-> NoFile, device_aggregation |-> NoFile]

DirFull ==
    [tables_xml |-> File(FullTables), index_xml |-> File(IndexDoc),
     body_part_key |-> File(BodyKeyJson), device_key |-> File(DeviceKeyJson),
     device_aggregation |-> File(AggJson)]

AssetDirs == {DirEmpty, DirScenario, DirFull}

\* the to_general dict which the aggregation file of dir yields
ToGeneralOf(dir) ==
    IF dir.device_aggregation.exists
    THEN ToGeneral(DictGet(dir.device_aggregation.content, "records", <<>>), <<>>)
    ELSE <<>>

\* argument values of the calls
BodySystemNames == {None, sHepato, sImaging}
OperationNames == {None, sResection, sDrainage}
BodyPartNames == {None, sGallbladder, sGbKey}
ApproachNames == {None, sPercEndo}
DeviceNames == {None, sPigtail, sDrainDev, sPigtailCath}
QualifierNames == {None, sDiagnostic}
NoteTexts == {None, sNoteChole, sNoteRest}
SectionNames == {sSecName, sSecOther}

(***************************************************************************)
(* The state machine.  assets holds the files the fields of the context     *)
(* were read from: the assets directory the context was built on and, once *)
(* load() has run again, for each field the file load() last read for it.  *)
(* ctx is the TablesContext (or None) the callers hold, call the last call *)
(* made on it with its arguments and its return value.  callers holds, for *)
(* each caller that runs resolve_code concurrently with the others, the    *)
(* point its call has reached and the locals of that call.  loader is the  *)
(* thread that calls load() beside them: the assignment it is to make      *)
(* next, the files it reads and the number of load() calls it has begun.   *)
(***************************************************************************)
NoCall == [op |-> "none", args |-> <<>>, ret |-> <<>>]

NumCallers == 2

Callers == 1..NumCallers

\* the trial state before the first trial of a root (validation.py 378-381)
FirstBest == [code |-> None, chosen |-> EmptyChosen, alts |-> <<>>, score |-> -1]

\* a caller that is not in a call of resolve_code.  leads, bp_list, dev_list, more, todo
\* and best are the locals of the call; raced tells that a load() changed the context
\* after the call had read it
IdleCaller ==
    [pc |-> "idle", args |-> <<>>, roots |-> <<>>, leads |-> <<>>, bp_list |-> <<>>,
     dev_list |-> <<>>, more |-> <<>>, todo |-> <<>>, best |-> FirstBest,
     candidates |-> <<>>, ret |-> <<>>, raced |-> FALSE]

\* the loader between two calls of load(), n calls begun
IdleLoader(n) == [pc |-> "idle", dir |-> DirEmpty, count |-> n]

Init ==
    /\ assets \in AssetDirs
    /\ \/ assets = DirEmpty /\ ctx = NoContext
       \/ \E iter \in SetOrders(ToGeneralOf(assets)) : ctx = TablesContext(assets, iter)
    /\ call = NoCall
    /\ callers = [c \in Callers |-> IdleCaller]
    /\ loader = IdleLoader(0)

CallResolveCode ==
    \E sn \in SectionNames, bs \in BodySystemNames, op \in OperationNames,
       bp \in BodyPartNames, ap \in ApproachNames, dv \in DeviceNames,
       ql \in QualifierNames, nt \in NoteTexts :
        /\ call = NoCall
        /\ call' = [op   |-> "resolve_code",
                    args |-> [section_name |-> sn, body_system_name |-> bs,
                              root_operation_name |-> op, body_part_name |-> bp,
                              approach_name |-> ap, device_name |-> dv,
                              qualifier_name |-> ql, note_text |-> nt],
                    ret  |-> resolve_code(ctx, sn, bs, op, bp, ap, dv, ql, nt)]
        /\ ctx' = IF ctx.some /\ ctx.tables.some /\ RootsOf(ctx, bs, op, nt) # <<>>
                  THEN StoreAfterNormDevice(ctx, dv) ELSE ctx
        /\ UNCHANGED <<assets, callers, loader>>

\* the filters find_roots is called with
SectionCodes == {sZero, <<"B">>}
BodySystemFilters == {None, <<>>, sHepato, sHepatoLower, sGastro}
OperationFilters == {None, sResection, sResectionWs, sExcision}

CallFindRoots ==
    \E sc \in SectionCodes, bs \in BodySystemFilters, op \in OperationFilters :
        /\ call = NoCall
        /\ ctx.tables.some
        /\ call' = [op   |-> "find_roots",
                    args |-> [section_code |-> sc, body_system_name |-> bs,
                              operation_name |-> op],
                    ret  |-> find_roots(ctx.tables.tables, sc, bs, op)]
        /\ UNCHANGED <<assets, ctx, callers, loader>>

\* the root keys best_match_row is called with: the stored ones and an unknown one
RootKeys == {ctx.tables.tables[i].k : i \in 1..Len(ctx.tables.tables)} \cup {<<"0","Z","Z">>}

CallBestMatchRow ==
    \E rk \in RootKeys, bp \in BodyPartNames \cup {sLiver}, ap \in ApproachNames,
       dv \in DeviceNames, ql \in QualifierNames :
        /\ call = NoCall
        /\ ctx.tables.some
        /\ call' = [op   |-> "best_match_row",
                    args |-> [root_key |-> rk, body_part_name |-> bp, approach_name |-> ap,
                              device_name |-> dv, qualifier_name |-> ql],
                    ret  |-> best_match_row(ctx.tables.tables, rk, bp, ap, dv, ql)]
        /\ UNCHANGED <<assets, ctx, callers, loader>>

\* the option lists of the stored rows, and the empty list
OptionLists ==
    {<<>>} \cup
    UNION {UNION {{RowGet(ctx.tables.tables[i].v.rows[j], p) : p \in AxisPos} :
                    j \in 1..Len(ctx.tables.tables[i].v.rows)} :
             i \in 1..Len(ctx.tables.tables)}

WantNames ==
    {None, <<>>, sGallbladder, sPercEndo, sPerc, sPercWs, sBlank, sPigtail, sDrainDev,
     sNoDeviceLower}

CallPick ==
    \E options \in OptionLists, want \in WantNames :
        /\ call = NoCall
        /\ ctx.tables.some
        /\ call' = [op   |-> "pick",
                    args |-> [options |-> options, want_name |-> want],
                    ret  |-> pick(options, want)]
        /\ UNCHANGED <<assets, ctx, callers, loader>>

CallNormBodyPart ==
    \E name \in {None, <<>>, sGallbladder, sGB, sGbKey, sHepar, sBile, sLiver} :
        /\ call = NoCall
        /\ call' = [op   |-> "_norm_body_part",
                    args |-> [name |-> name],
                    ret  |-> _norm_body_part(ctx, name)]
        /\ UNCHANGED <<assets, ctx, callers, loader>>

CallNormDevice ==
    \E name \in {None, <<>>, sPigtail, sPig, sStent, sDrainDev, sOld, sNil, sDrain} :
        /\ call = NoCall
        /\ call' = [op   |-> "_norm_device",
                    args |-> [name |-> name],
                    ret  |-> _norm_device(ctx, name)]
        /\ ctx' = StoreAfterNormDevice(ctx, name)
        /\ UNCHANGED <<assets, callers, loader>>

MaxLimit == 3

CallFindLeads ==
    \E text \in {None, sNoteChole, sGastrectomy, sOpen}, limit \in (0..MaxLimit) \cup {DefaultLimit} :
        /\ call = NoCall
        /\ ctx.index.some
        /\ call' = [op   |-> "find_leads_in_text",
                    args |-> [text |-> text, limit |-> limit],
                    ret  |-> find_leads_in_text(ctx.index, text, limit)]
        /\ UNCHANGED <<assets, ctx, callers, loader>>

\* context.load() after the files of the assets directory were replaced by those of dir
CallLoad ==
    \E dir \in AssetDirs :
       \E iter \in SetOrders(ToGeneralOf(dir)) :
          /\ call = NoCall
          /\ ctx.some
          /\ call' = [op |-> "load", args |-> [assets_dir |-> dir], ret |-> None]
          /\ ctx' = load(ctx, dir, iter)
          /\ assets' = FilesAfterLoad(assets, dir)
          /\ UNCHANGED <<callers, loader>>

\* the caller takes the return value; the next call can be made
Return ==
    /\ call # NoCall
    /\ call' = NoCall
    /\ UNCHANGED <<assets, ctx, callers, loader>>

Next ==
    \/ CallResolveCode
    \/ CallFindRoots
    \/ CallBestMatchRow
    \/ CallPick
    \/ CallNormBodyPart
    \/ CallNormDevice
    \/ CallFindLeads
    \/ CallLoad
    \/ Return

Spec == Init /\ [][Next]_vars

(***************************************************************************)
(* Concurrent callers of resolve_code on one context, and load() beside    *)
(* them.  Nothing takes a lock, so the threads interleave at every read    *)
(* and every assignment of a field of the context.  A call advances in the *)
(* steps of validation.py 355-427, one step for each read of the context:  *)
(* the header match, the index lookup, the table test of each lead, and    *)
(* for each root of the loop the body part key, the device key, the        *)
(* aggregation map once for each device candidate, the tables once for     *)
(* each trial and once more for the candidate; then the ranking and the    *)
(* return.  A test of a field for None and the use that follows it are one *)
(* step: load() never assigns None, so the test gives at the use what it   *)
(* gave before.  load() advances in its six assignments (validation.py     *)
(* 290-301), each with the file read before it.                            *)
(***************************************************************************)
NoArgs ==
    [section_name |-> sSecName, body_system_name |-> None, root_operation_name |-> None,
     body_part_name |-> None, approach_name |-> None, device_name |-> None,
     qualifier_name |-> None, note_text |-> None]

\* the calls the concurrent callers make: one with synonyms of several names and
\* a root from the header match, one that needs the index fallback and finds several roots
ConcArgs ==
    {[NoArgs EXCEPT !.body_system_name = sHepato, !.root_operation_name = sDrainage,
                    !.body_part_name = sHepar, !.device_name = sDrain],
     [NoArgs EXCEPT !.body_system_name = sImaging, !.note_text = sNoteChole,
                    !.device_name = sPigtail]}

\* caller c enters resolve_code
Enter(c) ==
    /\ callers[c].pc = "idle"
    /\ \E a \in ConcArgs :
          callers' = [callers EXCEPT ![c] = [IdleCaller EXCEPT !.pc = "entered", !.args = a]]
    /\ UNCHANGED <<assets, ctx, call, loader>>

\* validation.py 355-360: the not-loaded return, else the header match
FindRootsStep(c) ==
    /\ callers[c].pc = "entered"
    /\ callers' =
         [callers EXCEPT ![c] =
             IF ~ctx.some \/ ~ctx.tables.some
             THEN [callers[c] EXCEPT
                     !.pc = "done",
                     !.ret = [ok |-> FALSE, error |-> sTablesNotLoaded, candidates |-> <<>>]]
             ELSE [callers[c] EXCEPT
                     !.pc = "fallback",
                     !.roots = find_roots(ctx.tables.tables, sZero,
                                          callers[c].args.body_system_name,
                                          callers[c].args.root_operation_name)]]
    /\ UNCHANGED <<assets, ctx, call, loader>>

\* validation.py 364-367: the leads of the index when there is no root
FallbackStep(c) ==
    /\ callers[c].pc = "fallback"
    /\ callers' =
         [callers EXCEPT ![c] =
             IF callers[c].roots = <<>> /\ Truthy(callers[c].args.note_text) /\ ctx.index.some
             THEN LET leads == find_leads_in_text(ctx.index, callers[c].args.note_text,
                                                  DefaultLimit)
                  IN [callers[c] EXCEPT
                        !.pc = IF leads = <<>> THEN "loop" ELSE "leads",
                        !.leads = leads]
             ELSE [callers[c] EXCEPT !.pc = "loop"]]
    /\ UNCHANGED <<assets, ctx, call, loader>>

\* validation.py 368-371: the next lead, kept as a root when it is a key of the tables
LeadStep(c) ==
    /\ callers[c].pc = "leads"
    /\ callers' =
         [callers EXCEPT ![c] =
             [callers[c] EXCEPT
                !.pc = IF Tail(callers[c].leads) = <<>> THEN "loop" ELSE "leads",
                !.leads = Tail(callers[c].leads),
                !.roots = LeadRoots(<<Head(callers[c].leads)>>, ctx.tables.tables,
                                    callers[c].roots)]]
    /\ UNCHANGED <<assets, ctx, call, loader>>

\* for bp in (bp_list or [None]): for dv in (dev_list or [None])
TrialPairs(bp_list, dev_list) ==
    [i \in 1..(Len(OrNone(bp_list)) * Len(OrNone(dev_list))) |->
        [bp |-> OrNone(bp_list)[((i - 1) \div Len(OrNone(dev_list))) + 1],
         dv |-> OrNone(dev_list)[((i - 1) % Len(OrNone(dev_list))) + 1]]]

\* validation.py 375: _norm_body_part for the next root
NormBodyPartStep(c) ==
    /\ callers[c].pc = "loop"
    /\ callers[c].roots # <<>>
    /\ callers' =
         [callers EXCEPT ![c] =
             [callers[c] EXCEPT
                !.pc = "dev_key",
                !.bp_list = _norm_body_part(ctx, callers[c].args.body_part_name)]]
    /\ UNCHANGED <<assets, ctx, call, loader>>

\* validation.py 376, 319-323: _norm_device to the lookup in the device key
DeviceKeyStep(c) ==
    /\ callers[c].pc = "dev_key"
    /\ callers' =
         [callers EXCEPT ![c] =
             IF ~Truthy(callers[c].args.device_name)
             THEN [callers[c] EXCEPT
                     !.pc = "trial",
                     !.dev_list = <<>>,
                     !.todo = TrialPairs(callers[c].bp_list, <<>>)]
             ELSE [callers[c] EXCEPT
                     !.pc = "dev_agg",
                     !.dev_list = DeviceCandidates(ctx, callers[c].args.device_name),
                     !.todo = DeviceCandidates(ctx, callers[c].args.device_name)]]
    /\ UNCHANGED <<assets, ctx, call, loader>>

\* validation.py 325-328: the test of the aggregation map and the general names of the
\* first candidate
DeviceAggStep(c) ==
    /\ callers[c].pc = "dev_agg"
    /\ callers' =
         [callers EXCEPT ![c] =
             IF ~ctx.device_agg.some
             THEN [callers[c] EXCEPT !.pc = "dedup", !.todo = <<>>]
             ELSE [callers[c] EXCEPT
                     !.pc = IF Tail(callers[c].todo) = <<>> THEN "dedup" ELSE "generalize",
                     !.todo = Tail(callers[c].todo),
                     !.more = generalize(ctx.device_agg, Head(callers[c].todo))]]
    /\ UNCHANGED <<assets, ctx, call, loader>>

\* validation.py 327-328: the general names of the next candidate
GeneralizeStep(c) ==
    /\ callers[c].pc = "generalize"
    /\ callers' =
         [callers EXCEPT ![c] =
             [callers[c] EXCEPT
                !.pc = IF Tail(callers[c].todo) = <<>> THEN "dedup" ELSE "generalize",
                !.todo = Tail(callers[c].todo),
                !.more = callers[c].more \o generalize(ctx.device_agg, Head(callers[c].todo))]]
    /\ UNCHANGED <<assets, ctx, call, loader>>

\* validation.py 329-334: the list without duplicates, the trials it gives
DeDupStep(c) ==
    /\ callers[c].pc = "dedup"
    /\ callers' =
         [callers EXCEPT ![c] =
             [callers[c] EXCEPT
                !.pc = "trial",
                !.dev_list = DeDup(callers[c].dev_list \o callers[c].more, <<>>),
                !.more = <<>>,
                !.todo = TrialPairs(callers[c].bp_list,
                                    DeDup(callers[c].dev_list \o callers[c].more, <<>>))]]
    /\ ctx' = StoreAfterNormDevice(ctx, callers[c].args.device_name)
    /\ UNCHANGED <<assets, call, loader>>

\* validation.py 382-397: the next trial of the root
TryStep(c) ==
    /\ callers[c].pc = "trial"
    /\ callers' =
         [callers EXCEPT ![c] =
             [callers[c] EXCEPT
                !.pc = IF Tail(callers[c].todo) = <<>> THEN "append" ELSE "trial",
                !.todo = Tail(callers[c].todo),
                !.best = Trial(ctx.tables.tables, Head(callers[c].roots),
                               Head(callers[c].todo).bp, Head(callers[c].todo).dv,
                               callers[c].args.approach_name,
                               callers[c].args.qualifier_name, callers[c].best)]]
    /\ UNCHANGED <<assets, ctx, call, loader>>

\* the locals of the loop over roots before the next root
NextRoot(caller) ==
    [caller EXCEPT !.pc = "loop", !.roots = Tail(caller.roots), !.bp_list = <<>>,
                   !.dev_list = <<>>, !.best = FirstBest]

\* validation.py 398-423: the candidate of the root whose trials gave a code;
\* context.tables.tables[rt] raises KeyError when load() has replaced the tables by
\* tables without the root since the trials
AppendStep(c) ==
    /\ callers[c].pc = "append"
    /\ callers' =
         [callers EXCEPT ![c] =
             IF ~Truthy(callers[c].best.code)
             THEN NextRoot(callers[c])
             ELSE IF ~DictHas(ctx.tables.tables, Head(callers[c].roots))
             THEN [callers[c] EXCEPT
                     !.pc = "raised",
                     !.ret = [exception |-> "KeyError", key |-> Head(callers[c].roots)]]
             ELSE [NextRoot(callers[c]) EXCEPT
                     !.candidates =
                         Append(callers[c].candidates,
                                Candidate(DictGet(ctx.tables.tables, Head(callers[c].roots),
                                                  NoLabel),
                                          Head(callers[c].roots), callers[c].best.code,
                                          callers[c].best.chosen))]]
    /\ UNCHANGED <<assets, ctx, call, loader>>

\* validation.py 425-427: the ranking and the cut
RankStep(c) ==
    /\ callers[c].pc = "loop"
    /\ callers[c].roots = <<>>
    /\ callers' =
         [callers EXCEPT ![c] =
             [callers[c] EXCEPT
                !.pc = "done",
                !.ret = [ok |-> TRUE, error |-> None,
                         candidates |->
                             Prefix(SortDescFrom(callers[c].candidates, <<>>), TopN)]]]
    /\ UNCHANGED <<assets, ctx, call, loader>>

\* caller c takes the return value or the exception
Leave(c) ==
    /\ callers[c].pc \in {"done", "raised"}
    /\ callers' = [callers EXCEPT ![c] = IdleCaller]
    /\ UNCHANGED <<assets, ctx, call, loader>>

\* the number of load() calls that run while the callers call resolve_code
MaxReloads == 1

\* the callers after an assignment of load() that leaves the context as context: a call
\* that has read the context before and has not returned is marked when the assignment
\* changed a field
AfterAssignment(context) ==
    [c \in Callers |->
        IF callers[c].pc \in {"idle", "entered", "done", "raised"} \/ context = ctx
        THEN callers[c] ELSE [callers[c] EXCEPT !.raced = TRUE]]

\* load() assigns the field f when the files in its assets directory are those of dir
Assigns(dir, f) ==
    CASE f = "tables"     -> dir.tables_xml.exists
      [] f = "index"      -> dir.index_xml.exists
      [] f = "body_key"   -> UsedJson(dir.body_part_key)
      [] f = "device_key" -> UsedJson(dir.device_key)
      [] f = "device_agg" -> UsedJson(dir.device_aggregation)
      [] OTHER            -> TRUE

\* the fields in the order in which load() assigns them
LoadOrder == <<"tables", "index", "body_key", "device_key", "device_agg", "loaded">>

\* the place in LoadOrder of the first assignment load() makes from place i on
RECURSIVE AssignmentFrom(_, _)
AssignmentFrom(dir, i) ==
    IF Assigns(dir, LoadOrder[i]) THEN i ELSE AssignmentFrom(dir, i + 1)

\* the loader is about to assign the field at place i with the files of dir: it begins a
\* load() whose first assignment this is, or it has made the assignments before it
Assigning(dir, i) ==
    \/ /\ loader.pc = "idle"
       /\ ctx.some
       /\ loader.count < MaxReloads
       /\ AssignmentFrom(dir, 1) = i
    \/ /\ loader.pc = LoadOrder[i]
       /\ loader.dir = dir

\* the loader after the assignment at place i: before its next assignment
Assigned(dir, i) ==
    [pc    |-> LoadOrder[AssignmentFrom(dir, i + 1)],
     dir   |-> dir,
     count |-> IF loader.pc = "idle" THEN loader.count + 1 ELSE loader.count]

\* context.load() by another thread, after the files of the assets directory were replaced
\* by those of dir.  A step of it is one assignment with the file tests and the reading
\* that precede it; a field whose file is missing has no step.
\* validation.py 288-291: the tables
ReloadTables ==
    \E dir \in AssetDirs :
       /\ Assigning(dir, 1)
       /\ loader' = Assigned(dir, 1)
       /\ ctx' = LoadTables(ctx, dir)
       /\ assets' = [assets EXCEPT !.tables_xml = dir.tables_xml]
       /\ callers' = AfterAssignment(LoadTables(ctx, dir))
       /\ UNCHANGED call

\* validation.py 292-293: the index
ReloadIndex ==
    \E dir \in AssetDirs :
       /\ Assigning(dir, 2)
       /\ loader' = Assigned(dir, 2)
       /\ ctx' = LoadIndex(ctx, dir)
       /\ assets' = [assets EXCEPT !.index_xml = dir.index_xml]
       /\ callers' = AfterAssignment(LoadIndex(ctx, dir))
       /\ UNCHANGED call

\* validation.py 295-296: the body part key
ReloadBodyKey ==
    \E dir \in AssetDirs :
       /\ Assigning(dir, 3)
       /\ loader' = Assigned(dir, 3)
       /\ ctx' = LoadBodyKey(ctx, dir)
       /\ assets' = [assets EXCEPT !.body_part_key = dir.body_part_key]
       /\ callers' = AfterAssignment(LoadBodyKey(ctx, dir))
       /\ UNCHANGED call

\* validation.py 297-298: the device key
ReloadDeviceKey ==
    \E dir \in AssetDirs :
       /\ Assigning(dir, 4)
       /\ loader' = Assigned(dir, 4)
       /\ ctx' = LoadDeviceKey(ctx, dir)
       /\ assets' = [assets EXCEPT !.device_key = dir.device_key]
       /\ callers' = AfterAssignment(LoadDeviceKey(ctx, dir))
       /\ UNCHANGED call

\* validation.py 299-300: the aggregation map
ReloadDeviceAgg ==
    \E dir \in AssetDirs :
       \E iter \in SetOrders(ToGeneralOf(dir)) :
          /\ Assigning(dir, 5)
          /\ loader' = Assigned(dir, 5)
          /\ ctx' = LoadDeviceAgg(ctx, dir, iter)
          /\ assets' = [assets EXCEPT !.device_aggregation = dir.device_aggregation]
          /\ callers' = AfterAssignment(LoadDeviceAgg(ctx, dir, iter))
          /\ UNCHANGED call

\* validation.py 301: the loaded flag, which resolve_code does not read; load() returns
ReloadFlag ==
    \E dir \in AssetDirs :
       /\ Assigning(dir, 6)
       /\ loader' = IdleLoader(IF loader.pc = "idle" THEN loader.count + 1 ELSE loader.count)
       /\ ctx' = SetLoaded(ctx)
       /\ UNCHANGED <<assets, call, callers>>

NextConc ==
    \/ \E c \in Callers :
          \/ Enter(c)
          \/ FindRootsStep(c)
          \/ FallbackStep(c)
          \/ LeadStep(c)
          \/ NormBodyPartStep(c)
          \/ DeviceKeyStep(c)
          \/ DeviceAggStep(c)
          \/ GeneralizeStep(c)
          \/ DeDupStep(c)
          \/ TryStep(c)
          \/ AppendStep(c)
          \/ RankStep(c)
          \/ Leave(c)
    \/ ReloadTables
    \/ ReloadIndex
    \/ ReloadBodyKey
    \/ ReloadDeviceKey
    \/ ReloadDeviceAgg
    \/ ReloadFlag

SpecConc == Init /\ [][NextConc]_vars

(***************************************************************************)
(* Properties                                                              *)
(***************************************************************************)
IsResolve == call.op = "resolve_code"

Tables == ctx.tables.tables

TableOf(root_key) == DictGet(Tables, root_key, NoLabel)

Options(row, p) == {RowGet(row, p)[i] : i \in 1..Len(RowGet(row, p))}

\* code is the root of t followed by the codes of one option of each axis of one row of t
FromOneRow(t, code) ==
    \E j \in 1..Len(t.rows) :
        \E o4 \in Options(t.rows[j], "4"), o5 \in Options(t.rows[j], "5"),
           o6 \in Options(t.rows[j], "6"), o7 \in Options(t.rows[j], "7") :
            code = t.section.code \o t.body_system.code \o t.operation.code
                     \o o4.code \o o5.code \o o6.code \o o7.code

Key0FT == <<"0","F","T">>
Key0FB == <<"0","F","B">>
Key0F9 == <<"0","F","9">>
Key0DT == <<"0","D","T">>

\* C1 (row atomicity): every code best_match_row returns, the code of each of its
\* alternates, and every pcs_code resolve_code returns, is the root followed by the codes
\* of four options, one per axis 4-7, of one single row of that root's table.
C1_RowAtomicity ==
    /\ call.op = "best_match_row" =>
         /\ call.ret.code # None => FromOneRow(TableOf(call.args.root_key), call.ret.code)
         /\ \A i \in 1..Len(call.ret.alts) :
              call.ret.alts[i].code # None =>
                FromOneRow(TableOf(call.args.root_key), call.ret.alts[i].code)
    /\ IsResolve =>
         \A i \in 1..Len(call.ret.candidates) :
            FromOneRow(TableOf(call.ret.candidates[i].root_key),
                       call.ret.candidates[i].pcs_code)

\* best_match_row has returned a code for 0FB, whose two rows differ on every axis, for
\* names that score on the body part of one row and the approach of the other
C1_Witness ==
    /\ call.op = "best_match_row"
    /\ call.args.root_key = Key0FB
    /\ call.args.body_part_name = sGallbladder
    /\ call.args.approach_name = sPercEndo
    /\ call.ret.code = <<"0","F","B","4","0","Z","Z">>
    /\ Len(call.ret.alts) = 2

\* C2 (ranking tie-break): of two returned candidates of equal score, the one with the
\* lexicographically smaller pcs_code comes first.
C2_SmallerCodeFirst ==
    IsResolve =>
      \A i, j \in 1..Len(call.ret.candidates) :
         (i < j /\ call.ret.candidates[i].score = call.ret.candidates[j].score)
           => StrLess(call.ret.candidates[i].pcs_code, call.ret.candidates[j].pcs_code)

\* the context with another iteration order of the sets of its aggregation map
WithIter(context, iter) == [context EXCEPT !.device_agg.iter = iter]

ResolveWith(context, a) ==
    resolve_code(context, a.section_name, a.body_system_name, a.root_operation_name,
                 a.body_part_name, a.approach_name, a.device_name, a.qualifier_name,
                 a.note_text)

\* C3 (determinism): the list a call of resolve_code returned is the list it returns for
\* every iteration order of the sets of general device names of the aggregation map.
C3_OrderIndependent ==
    (IsResolve /\ ctx.some /\ ctx.device_agg.some) =>
      \A iter \in SetOrders(ctx.device_agg.to_general) :
         ResolveWith(WithIter(ctx, iter), call.args) = call.ret

\* the table the scenario describes
ScenarioEntry ==
    [section     |-> [code |-> <<"0">>, text |-> sMedSurg],
     body_system |-> [code |-> <<"F">>, text |-> sHepato],
     operation   |-> [code |-> <<"T">>, text |-> sResection, definition |-> sCutAll],
     rows        |->
        <<("4" :> <<[code |-> <<"4">>, text |-> sGallbladder]>>)
          @@ ("5" :> <<[code |-> <<"0">>, text |-> sOpen], [code |-> <<"4">>, text |-> sPercEndo]>>)
          @@ ("6" :> <<[code |-> <<"Z">>, text |-> sNoDevice]>>)
          @@ ("7" :> <<[code |-> <<"Z">>, text |-> sNoQualifier]>>)>>]

\* the store holds the single root 0FT and resolve_code was called as in the scenario
ScenarioCall ==
    /\ IsResolve
    /\ ctx.some /\ ctx.tables.some
    /\ Tables = <<[k |-> Key0FT, v |-> ScenarioEntry]>>
    /\ call.args.body_system_name = sHepato
    /\ call.args.root_operation_name = sResection
    /\ call.args.body_part_name = sGallbladder
    /\ call.args.approach_name = sPercEndo
    /\ call.args.device_name = None
    /\ call.args.qualifier_name = None

\* C4 (scenario): the scenario call returns ok with exactly one candidate, 0FT44ZZ.
C4_Scenario ==
    ScenarioCall =>
      /\ call.ret.ok
      /\ Len(call.ret.candidates) = 1
      /\ call.ret.candidates[1].pcs_code = <<"0","F","T","4","4","Z","Z">>

C4_Witness == ScenarioCall /\ call.ret.ok /\ call.ret.candidates # <<>>

\* the picks of row j of candidate c's table under the trial names bp and dv are c's
\* components and labels
PicksAre(c, picks) ==
    /\ AllPicked(RowChoice(picks))
    /\ picks["4"].label = [code |-> c.components.body_part, text |-> c.labels.body_part]
    /\ picks["5"].label = [code |-> c.components.approach, text |-> c.labels.approach]
    /\ picks["6"].label = [code |-> c.components.device, text |-> c.labels.device]
    /\ picks["7"].label = [code |-> c.components.qualifier, text |-> c.labels.qualifier]

Range(seq) == {seq[i] : i \in 1..Len(seq)}

\* C5 (additive score): the score of a returned candidate is the sum of the four raw
\* per-axis pick scores (3, 2, 1 or 0) of its chosen row under one of the tried
\* (body part, device) names; in the 0FT scenario it is 8.
C5_AdditiveScore ==
    /\ IsResolve =>
         \A i \in 1..Len(call.ret.candidates) :
            \E bp \in Range(OrNone(_norm_body_part(ctx, call.args.body_part_name))),
               dv \in Range(OrNone(_norm_device(ctx, call.args.device_name))) :
               \E j \in 1..Len(TableOf(call.ret.candidates[i].root_key).rows) :
                  /\ PicksAre(call.ret.candidates[i],
                              RowPicks(TableOf(call.ret.candidates[i].root_key).rows[j], bp,
                                       call.args.approach_name, dv, call.args.qualifier_name))
                  /\ call.ret.candidates[i].score =
                       RowScore(RowPicks(TableOf(call.ret.candidates[i].root_key).rows[j], bp,
                                         call.args.approach_name, dv,
                                         call.args.qualifier_name))
    /\ ScenarioCall => (call.ret.candidates # <<>> /\ call.ret.candidates[1].score = 8)

\* index of the first option whose text is No Device, compared as the code compares texts
FirstNoDevice(options) ==
    CHOOSE i \in 1..Len(options) :
       /\ lower(strip(options[i].text)) = lower(sNoDevice)
       /\ \A j \in 1..(i - 1) : lower(strip(options[j].text)) # lower(sNoDevice)

HasNoDevice(options) == \E i \in 1..Len(options) : options[i].text = sNoDevice

\* C6 (default preference): when no name is supplied and the options contain a No Device
\* option, at whatever position, pick returns that option with score 1; and so, for an
\* omitted device name, the axis-6 label of every row of best_match_row that offers
\* No Device is that option.
C6_DefaultNoDevice ==
    /\ (call.op = "pick" /\ ~Truthy(call.args.want_name) /\ HasNoDevice(call.args.options)) =>
         call.ret = [label |-> call.args.options[FirstNoDevice(call.args.options)], score |-> 1]
    /\ (call.op = "best_match_row" /\ ~Truthy(call.args.device_name)) =>
         \A j \in 1..Len(call.ret.alts) :
            HasNoDevice(RowGet(TableOf(call.args.root_key).rows[j], "6")) =>
              /\ call.ret.alts[j].labels["6"].text = sNoDevice
              /\ call.ret.alts[j].labels["6"] =
                   RowGet(TableOf(call.args.root_key).rows[j], "6")
                     [FirstNoDevice(RowGet(TableOf(call.args.root_key).rows[j], "6"))]

\* pick was called without a name on options that list No Device second
C6_Witness ==
    /\ call.op = "pick"
    /\ call.args.want_name = None
    /\ Len(call.args.options) = 2
    /\ call.args.options[1].text = sDrainDev
    /\ call.args.options[2].text = sNoDevice
    /\ call.ret.score = 1

\* the leads the fallback of the call would use: those that map to a stored section-0 root
UsableLeads ==
    {l \in Range(find_leads_in_text(ctx.index, call.args.note_text, DefaultLimit)) :
        StartsWith(Prefix(l, 3), sZero) /\ DictHas(Tables, Prefix(l, 3))}

NoHeaderRoot ==
    \A i \in 1..Len(Tables) :
       ~ /\ Tables[i].v.section.code = sZero
         /\ (Truthy(call.args.body_system_name) =>
               lower(strip(Tables[i].v.body_system.text))
                 = lower(strip(call.args.body_system_name)))
         /\ (Truthy(call.args.root_operation_name) =>
               lower(strip(Tables[i].v.operation.text))
                 = lower(strip(call.args.root_operation_name)))

NoUsableFallback ==
    ~Truthy(call.args.note_text) \/ ~ctx.index.some \/ UsableLeads = {}

\* C7 (graceful empty result): with tables loaded, no root for the header names and no
\* usable fallback, resolve_code returns ok = true, error = none and no candidate.
C7_GracefulEmpty ==
    (IsResolve /\ ctx.some /\ ctx.tables.some /\ NoHeaderRoot /\ NoUsableFallback) =>
      call.ret = [ok |-> TRUE, error |-> None, candidates |-> <<>>]

\* a call with a note and an index whose leads for that note are none
C7_Witness ==
    /\ IsResolve /\ ctx.some /\ ctx.tables.some /\ ctx.index.some
    /\ NoHeaderRoot
    /\ call.args.note_text = sNoteRest
    /\ UsableLeads = {}
    /\ call.ret.ok

NotLoaded == ~ctx.some \/ ~assets.tables_xml.exists

\* C8 (not-loaded failure): when the context is absent or the table source was missing
\* at every load of it, resolve_code returns ok = false with a non-empty error and no candidate,
\* whatever the other arguments; and it returns ok = false in no other situation.
C8_NotLoaded ==
    IsResolve =>
      /\ NotLoaded =>
           (~call.ret.ok /\ Truthy(call.ret.error) /\ call.ret.candidates = <<>>)
      /\ ~call.ret.ok => NotLoaded

\* a call on a context no load of which has found the table source
C8_Witness ==
    /\ IsResolve /\ ctx.some /\ ~assets.tables_xml.exists
    /\ call.args.body_system_name = sHepato
    /\ ~call.ret.ok

IsNormBodyPart == call.op = "_norm_body_part"

NameKey == lower(strip(call.args.name))

\* the name is a key of the loaded body-part dictionary
IsBodyKey == ctx.some /\ ctx.body_key.some /\ DictHas(ctx.body_key.map, NameKey)

\* C9 as stated: _norm_body_part returns [] for an absent name, [name] when no dictionary
\* is loaded or the name is not a key, and the mapped names when the name is a key.
C9_AsStated ==
    IsNormBodyPart =>
      /\ ~Truthy(call.args.name) => call.ret = <<>>
      /\ (Truthy(call.args.name) /\ ~IsBodyKey) => call.ret = <<call.args.name>>
      /\ (Truthy(call.args.name) /\ IsBodyKey) =>
           call.ret = DictGet(ctx.body_key.map, NameKey, <<>>)

\* C9 (amended): as stated, but a key that maps to an empty list yields [name].
C9_BodyPartSynonyms ==
    IsNormBodyPart =>
      /\ ~Truthy(call.args.name) => call.ret = <<>>
      /\ (Truthy(call.args.name) /\ ~IsBodyKey) => call.ret = <<call.args.name>>
      /\ (Truthy(call.args.name) /\ IsBodyKey
            /\ DictGet(ctx.body_key.map, NameKey, <<>>) # <<>>) =>
           call.ret = DictGet(ctx.body_key.map, NameKey, <<>>)
      /\ (Truthy(call.args.name) /\ IsBodyKey
            /\ DictGet(ctx.body_key.map, NameKey, <<>>) = <<>>) =>
           call.ret = <<call.args.name>>

\* a name that differs from its key by case and surrounding blanks has been resolved
C9_Witness ==
    /\ IsNormBodyPart
    /\ call.args.name = sGbKey
    /\ IsBodyKey
    /\ call.ret = <<sGallbladder>>

\* the table stored at position i passes the filters of the find_roots call
PassesFilters(i) ==
    /\ Tables[i].v.section.code = call.args.section_code
    /\ (Truthy(call.args.body_system_name) =>
          lower(strip(Tables[i].v.body_system.text)) = lower(strip(call.args.body_system_name)))
    /\ (Truthy(call.args.operation_name) =>
          lower(strip(Tables[i].v.operation.text)) = lower(strip(call.args.operation_name)))

\* C10 (find_roots): the keys returned are exactly those of the tables whose section code
\* is the given one and whose body-system and operation texts equal the given filters
\* ignoring case (an omitted filter matches any), without duplicates, in store order.
C10_FindRoots ==
    call.op = "find_roots" =>
      /\ Range(call.ret) = {Tables[i].k : i \in {n \in 1..Len(Tables) : PassesFilters(n)}}
      /\ \A i, j \in 1..Len(call.ret) :
            i < j => \E m, n \in 1..Len(Tables) :
                        m < n /\ Tables[m].k = call.ret[i] /\ Tables[n].k = call.ret[j]

\* find_roots returned the three section-0 roots of a body system named in lower case
C10_Witness ==
    /\ call.op = "find_roots"
    /\ call.args.body_system_name = sHepatoLower
    /\ call.args.operation_name = None
    /\ call.ret = <<Key0FT, Key0FB, Key0F9>>

IsBestMatchRow == call.op = "best_match_row"

\* the aggregate score of row j of the table of the best_match_row call: the sum of the
\* scores of its four axis picks for the names of the call
AggregateScore(j) ==
    RowScore(RowPicks(TableOf(call.args.root_key).rows[j], call.args.body_part_name,
                      call.args.approach_name, call.args.device_name,
                      call.args.qualifier_name))

\* the first row of maximal aggregate score
FirstMaxRow ==
    CHOOSE j \in 1..Len(TableOf(call.args.root_key).rows) :
       /\ \A k \in 1..Len(TableOf(call.args.root_key).rows) :
             AggregateScore(k) <= AggregateScore(j)
       /\ \A k \in 1..(j - 1) : AggregateScore(k) < AggregateScore(j)

\* C11 (best-row selection): best_match_row reports one alternate per row with the row's
\* aggregate score, and the row it selects is the first row of maximal aggregate score:
\* the chosen labels and the code are those of that row (and absent when that row has
\* no pick on some axis).
C11_BestRow ==
    (IsBestMatchRow /\ DictHas(Tables, call.args.root_key)
       /\ TableOf(call.args.root_key).rows # <<>>) =>
      /\ Len(call.ret.alts) = Len(TableOf(call.args.root_key).rows)
      /\ \A j \in 1..Len(call.ret.alts) : call.ret.alts[j].score = AggregateScore(j)
      /\ IF AllPicked(call.ret.alts[FirstMaxRow].labels)
         THEN /\ call.ret.chosen = call.ret.alts[FirstMaxRow].labels
              /\ call.ret.code = call.ret.alts[FirstMaxRow].code
         ELSE /\ call.ret.chosen = EmptyChosen
              /\ call.ret.code = None

\* best_match_row was called without names on 0FB, whose two rows tie, and returned the
\* code of the first row
C11_Witness ==
    /\ IsBestMatchRow
    /\ call.args.root_key = Key0FB
    /\ Len(call.ret.alts) = 2
    /\ call.ret.alts[1].score = call.ret.alts[2].score
    /\ call.ret.alts[1].code # call.ret.alts[2].code
    /\ call.ret.code = call.ret.alts[1].code

IsPick == call.op = "pick"

\* texts compared as pick compares them: ignoring case and surrounding blanks
SameText(a, b) == lower(strip(a)) = lower(strip(b))

\* a occurs in b or b occurs in a, ignoring case and surrounding blanks
SubText(a, b) ==
    \/ InStr(lower(strip(a)), lower(strip(b)))
    \/ InStr(lower(strip(b)), lower(strip(a)))

\* the least element of a non-empty set of positions
Least(S) == CHOOSE i \in S : \A j \in S : i <= j

ExactAt == {i \in 1..Len(call.args.options) :
              SameText(call.args.options[i].text, call.args.want_name)}

SubAt == {i \in 1..Len(call.args.options) :
            SubText(call.args.options[i].text, call.args.want_name)}

\* C12 (pick rule with a target name): on a non-empty option list, the first option whose
\* text equals the target (ignoring case) is picked with score 3, also behind options that
\* only substring-match; else the first option whose text contains the target or is
\* contained in it is picked with score 2; else the first listed option is picked with
\* score 0.  An empty option list yields no pick and score 0.
C12_PickRule ==
    IsPick =>
      /\ call.args.options = <<>> => call.ret = [label |-> NoLabel, score |-> 0]
      /\ (call.args.options # <<>> /\ Truthy(call.args.want_name)) =>
           IF ExactAt # {}
           THEN call.ret = [label |-> call.args.options[Least(ExactAt)], score |-> 3]
           ELSE IF SubAt # {}
           THEN call.ret = [label |-> call.args.options[Least(SubAt)], score |-> 2]
           ELSE call.ret = [label |-> call.args.options[1], score |-> 0]

\* pick found the exact match in third place, behind an option that contains the target
C12_Witness ==
    /\ IsPick
    /\ call.args.want_name = sPerc
    /\ Len(call.args.options) = 3
    /\ call.args.options[2].text = sPercEndo
    /\ call.args.options[3].text = sPerc
    /\ call.ret = [label |-> call.args.options[3], score |-> 3]

\* the selected best row has options on each of the axes 4-7
BestRowComplete ==
    \A p \in AxisPos : RowGet(TableOf(call.args.root_key).rows[FirstMaxRow], p) # <<>>

\* C13 (code only from a complete best row): best_match_row returns a code only if the
\* root is stored, its table has rows and the selected best row has a pick on each of
\* the four axes; for an unknown root, a table without rows or a best row that lacks
\* options on an axis the code is absent, even if another row would give a code.
C13_CodeNeedsFourPicks ==
    IsBestMatchRow =>
      /\ call.ret.code # None =>
           /\ DictHas(Tables, call.args.root_key)
           /\ TableOf(call.args.root_key).rows # <<>>
           /\ BestRowComplete
           /\ DOMAIN call.ret.chosen = AxisPos
           /\ \A p \in AxisPos : call.ret.chosen[p] # NoLabel
      /\ ~DictHas(Tables, call.args.root_key) => call.ret.code = None
      /\ (DictHas(Tables, call.args.root_key) /\ TableOf(call.args.root_key).rows = <<>>) =>
           call.ret.code = None
      /\ (DictHas(Tables, call.args.root_key) /\ TableOf(call.args.root_key).rows # <<>>
            /\ ~BestRowComplete) =>
           call.ret.code = None

\* the best row of 0F9 for the device Pigtail has no qualifier axis: no code is returned,
\* though other rows of the table have one
C13_Witness ==
    /\ IsBestMatchRow
    /\ call.args.root_key = Key0F9
    /\ call.args.device_name = sPigtail
    /\ ~BestRowComplete
    /\ call.ret.code = None
    /\ \E j \in 1..Len(call.ret.alts) : call.ret.alts[j].code # None

IsNormDevice == call.op = "_norm_device"

\* the name is a key of the loaded device dictionary
IsDeviceKey == ctx.some /\ ctx.device_key.some /\ DictHas(ctx.device_key.map, NameKey)

\* seq without the later occurrences of its elements
RECURSIVE KeepFirst(_)
KeepFirst(seq) ==
    IF seq = <<>> THEN <<>>
    ELSE LET init == KeepFirst(SubSeq(seq, 1, Len(seq) - 1))
         IN IF seq[Len(seq)] \in Range(init) THEN init ELSE Append(init, seq[Len(seq)])

\* seq without its empty names
RECURSIVE NonEmpty(_)
NonEmpty(seq) ==
    IF seq = <<>> THEN <<>>
    ELSE (IF Head(seq) # <<>> THEN <<Head(seq)>> ELSE <<>>) \o NonEmpty(Tail(seq))

\* the general names the aggregation map holds for the names of direct
GeneralsOf(direct) ==
    IF ctx.some /\ ctx.device_agg.some
    THEN UNION {DictGet(ctx.device_agg.to_general, c, {}) : c \in Range(direct)}
    ELSE {}

\* ret lists direct first, in order, then exactly the generalizations of direct, each
\* name once
DirectThenGenerals(ret, direct) ==
    /\ Len(ret) >= Len(direct)
    /\ SubSeq(ret, 1, Len(direct)) = direct
    /\ Range(ret) = Range(direct) \cup GeneralsOf(direct)
    /\ \A i, j \in 1..Len(ret) : i # j => ret[i] # ret[j]

\* C14 as stated: for a present name _norm_device returns the direct candidates (the
\* mapping of the name when it is a key of the device dictionary, else the name) in
\* dictionary order, each retained, then their generalizations, duplicates removed
\* keeping the first occurrence; an absent name yields the empty sequence.
C14_AsStated ==
    IsNormDevice =>
      /\ ~Truthy(call.args.name) => call.ret = <<>>
      /\ Truthy(call.args.name) =>
           /\ DirectThenGenerals(call.ret,
                 KeepFirst(IF IsDeviceKey THEN DictGet(ctx.device_key.map, NameKey, <<>>)
                           ELSE <<call.args.name>>))
           /\ IsDeviceKey =>
                 Range(DictGet(ctx.device_key.map, NameKey, <<>>)) \subseteq Range(call.ret)

\* C14 (amended): as stated, but a key that maps to an empty list yields the name itself
\* as the direct candidate, and empty names among the direct candidates are dropped.
C14_DeviceExpansion ==
    IsNormDevice =>
      /\ ~Truthy(call.args.name) => call.ret = <<>>
      /\ Truthy(call.args.name) =>
           DirectThenGenerals(call.ret,
              KeepFirst(NonEmpty(IF IsDeviceKey
                                    /\ DictGet(ctx.device_key.map, NameKey, <<>>) # <<>>
                                 THEN DictGet(ctx.device_key.map, NameKey, <<>>)
                                 ELSE <<call.args.name>>)))

\* the synonym pig was expanded to its device name followed by the two general names of
\* that device
C14_Witness ==
    /\ IsNormDevice
    /\ call.args.name = sPig
    /\ IsDeviceKey
    /\ Len(call.ret) = 3
    /\ call.ret[1] = sPigtail
    /\ {call.ret[2], call.ret[3]} = {sDrainDev, sStent}

\* the match score of the best row of a best_match_row result: the highest row score
MatchScore(r) ==
    CHOOSE s \in {r.alts[j].score : j \in 1..Len(r.alts)} :
       \A j \in 1..Len(r.alts) : r.alts[j].score <= s

\* the trial of the resolve_code call on root rt with the names bp and dv
TrialOf(rt, bp, dv) ==
    best_match_row(Tables, rt, bp, call.args.approach_name, dv, call.args.qualifier_name)

BodyPartTrials == Range(OrNone(_norm_body_part(ctx, call.args.body_part_name)))

DeviceTrials == Range(OrNone(_norm_device(ctx, call.args.device_name)))

\* C15 (best trial per root): the candidate of a root is the code of a trial (a body
\* part candidate with a device candidate) whose best-row match score is the highest
\* among the trials of that root that produced a code; a later trial that matches
\* better than the earlier ones replaces them.
C15_BestTrial ==
    IsResolve =>
      \A i \in 1..Len(call.ret.candidates) :
         \E bp \in BodyPartTrials, dv \in DeviceTrials :
            /\ TrialOf(call.ret.candidates[i].root_key, bp, dv).code
                 = call.ret.candidates[i].pcs_code
            /\ \A bp2 \in BodyPartTrials, dv2 \in DeviceTrials :
                  TrialOf(call.ret.candidates[i].root_key, bp2, dv2).code # None =>
                    MatchScore(TrialOf(call.ret.candidates[i].root_key, bp2, dv2))
                      <= MatchScore(TrialOf(call.ret.candidates[i].root_key, bp, dv))

\* the candidates of all the roots of the resolve_code call, before ranking and cut
FullCandidates ==
    CandidatesOf(ctx,
                 RootsOf(ctx, call.args.body_system_name, call.args.root_operation_name,
                         call.args.note_text),
                 call.args.body_part_name, call.args.approach_name, call.args.device_name,
                 call.args.qualifier_name)

\* C16 (top-5 truncation): resolve_code returns at most 5 candidates, in non-increasing
\* score order; they are candidates of the call's roots, all of them when there are at
\* most 5, and no candidate left out has a score higher than a returned one.
C16_TopFive ==
    (IsResolve /\ call.ret.ok) =>
      /\ Len(call.ret.candidates) <= 5
      /\ \A i, j \in 1..Len(call.ret.candidates) :
            i < j => call.ret.candidates[i].score >= call.ret.candidates[j].score
      /\ Range(call.ret.candidates) \subseteq Range(FullCandidates)
      /\ Len(call.ret.candidates) =
           (IF Len(FullCandidates) < 5 THEN Len(FullCandidates) ELSE 5)
      /\ \A c \in Range(FullCandidates) \ Range(call.ret.candidates) :
            \A i \in 1..Len(call.ret.candidates) : c.score <= call.ret.candidates[i].score

\* a call whose roots gave six candidates returned five of them
C16_Witness ==
    /\ IsResolve /\ call.ret.ok
    /\ Len(FullCandidates) = 6
    /\ Len(call.ret.candidates) = 5

\* the keys of the stored section-0 tables that match the header names of the call
HeaderRootSet ==
    {Tables[i].k : i \in {n \in 1..Len(Tables) :
        /\ Tables[n].v.section.code = sZero
        /\ (Truthy(call.args.body_system_name) =>
              SameText(Tables[n].v.body_system.text, call.args.body_system_name))
        /\ (Truthy(call.args.root_operation_name) =>
              SameText(Tables[n].v.operation.text, call.args.root_operation_name))}}

\* the roots the resolve_code call works on
RootsOfCall ==
    RootsOf(ctx, call.args.body_system_name, call.args.root_operation_name,
            call.args.note_text)

\* the leads of the note of the call
LeadsOfNote == find_leads_in_text(ctx.index, call.args.note_text, DefaultLimit)

\* of seq, the entries that start with '0' and are keys of the store
RECURSIVE StoredZero(_)
StoredZero(seq) ==
    IF seq = <<>> THEN <<>>
    ELSE (IF Head(seq)[1] = "0" /\ \E i \in 1..Len(Tables) : Tables[i].k = Head(seq)
          THEN <<Head(seq)>> ELSE <<>>) \o StoredZero(Tail(seq))

\* the leads cut to 3 characters, the stored section-0 ones, first occurrences, lead order
FallbackRoots ==
    KeepFirst(StoredZero([i \in 1..Len(LeadsOfNote) |->
                             SubSeq(LeadsOfNote[i], 1,
                                    IF Len(LeadsOfNote[i]) < 3 THEN Len(LeadsOfNote[i])
                                    ELSE 3)]))

\* C17 (fallback gating): when the header match finds a root, the roots of the call are
\* the header roots and every candidate's root_key is one of them, whatever the note;
\* when it finds none and a note and an index are present, the roots are the leads cut
\* to 3 characters that start with '0' and are keys of the store, without duplicates, in
\* lead order, leads outside the store being dropped without error; otherwise there is
\* no root.
C17_FallbackGating ==
    (IsResolve /\ ctx.some /\ ctx.tables.some) =>
      /\ call.ret.ok /\ call.ret.error = None
      /\ \A i \in 1..Len(call.ret.candidates) :
            call.ret.candidates[i].root_key \in Range(RootsOfCall)
      /\ HeaderRootSet # {} => Range(RootsOfCall) = HeaderRootSet
      /\ (HeaderRootSet = {} /\ Truthy(call.args.note_text) /\ ctx.index.some) =>
            RootsOfCall = FallbackRoots
      /\ (HeaderRootSet = {} /\ ~(Truthy(call.args.note_text) /\ ctx.index.some)) =>
            RootsOfCall = <<>>

\* the header names matched no root and the note gave leads, two of them not usable:
\* the candidates come from the three roots of the usable leads
C17_Witness ==
    /\ IsResolve /\ ctx.some /\ ctx.tables.some /\ ctx.index.some
    /\ HeaderRootSet = {}
    /\ call.args.note_text = sNoteChole
    /\ Len(LeadsOfNote) = 5
    /\ RootsOfCall = <<Key0FT, Key0FB, Key0F9>>
    /\ Len(call.ret.candidates) = 3

IsFindLeads == call.op = "find_leads_in_text"

\* the title of the term occurs in the lower-cased text of the find_leads_in_text call
TitleOccurs(term) ==
    /\ Truthy(term.title)
    /\ strip(term.title) # <<>>
    /\ InStr(lower(strip(term.title)),
             lower(IF Truthy(call.args.text) THEN call.args.text ELSE <<>>))

\* the codes of a term, blanks around them removed, an absent code being empty
CodesOfTerm(term) ==
    [i \in 1..Len(term.codes) |->
        IF Truthy(term.codes[i]) THEN strip(term.codes[i]) ELSE <<>>]

\* the codes of the terms whose title occurs in the text, in document order
RECURSIVE CodesInOrder(_)
CodesInOrder(terms) ==
    IF terms = <<>> THEN <<>>
    ELSE (IF TitleOccurs(Head(terms)) THEN CodesOfTerm(Head(terms)) ELSE <<>>)
         \o CodesInOrder(Tail(terms))

\* C18 (bounded leads): for any text and any limit >= 0, find_leads_in_text returns no
\* code twice and never more than limit codes, and what it returns is the beginning of
\* the codes of the terms whose title occurs in the lower-cased text, in term-encounter
\* order.
C18_LeadsBounded ==
    (IsFindLeads /\ call.args.limit >= 0) =>
      /\ \A i, j \in 1..Len(call.ret) : i # j => call.ret[i] # call.ret[j]
      /\ Len(call.ret) <= call.args.limit
      /\ Len(call.ret) <= Len(KeepFirst(NonEmpty(CodesInOrder(ctx.index.terms))))
      /\ call.ret = SubSeq(KeepFirst(NonEmpty(CodesInOrder(ctx.index.terms))), 1,
                           Len(call.ret))

\* the pcsTable elements of the table source the context was loaded from
SourceTables == assets.tables_xml.content

\* the position in the source of the first pcsTable with the root key key
FirstInSource(key) ==
    CHOOSE n \in 1..Len(SourceTables) :
       /\ TableKey(SourceTables[n]) = key
       /\ \A m \in 1..(n - 1) : TableKey(SourceTables[m]) # key

\* C19 (duplicate root on load): the table stored under a root key is the first table
\* of the source with that key; a later table with the same key does not overwrite it.
C19_FirstRootWins ==
    (ctx.some /\ ctx.tables.some) =>
      \A i \in 1..Len(Tables) :
         Tables[i].v = TableEntry(SourceTables[FirstInSource(Tables[i].k)])

\* a call that no assignment of load() ran into returns the result of the same call
\* executed alone on the loaded state
ReturnsAlone ==
    \A c \in Callers :
       (callers[c].pc # "done" /\ callers'[c].pc = "done" /\ ~callers'[c].raced) =>
          callers'[c].ret = ResolveWith(ctx, callers'[c].args)

\* C20 (no mutation by resolve): whatever resolve_code calls have run or are running,
\* one after the other or interleaved, no step of a call changes the loaded state (the
\* tables, the index, the keys, the aggregation map, the loaded flag): only a step of
\* load() does; and every call that returns, and that no assignment of load() ran into,
\* returns the result of the same call executed alone on that state.
C20_NoMutation == [][(loader' = loader => ctx' = ctx) /\ ReturnsAlone]_vars

\* one caller has returned candidates while another, that entered with other arguments,
\* is in the middle of its loop over roots
C20_Witness ==
    \E c, d \in Callers :
       /\ callers[c].pc = "done"
       /\ ~callers[c].raced
       /\ callers[c].ret.candidates # <<>>
       /\ callers[d].pc = "loop"
       /\ callers[d].args # callers[c].args
       /\ callers[d].candidates # <<>>
       /\ callers[d].roots # <<>>

\* the number of labels the header axis pos of the pcsTable pt lists
HeaderLabelCount(pt, pos) ==
    Cardinality(UNION {{<<i, j>> : j \in 1..Len(pt.axes[i].labels)} :
                          i \in {k \in 1..Len(pt.axes) : pt.axes[k].pos = pos}})

\* each of the header axes 1-3 of pt lists exactly one label
SingleLabels(pt) == \A pos \in {"1", "2", "3"} : HeaderLabelCount(pt, pos) = 1

\* the pcsTable pt is in the store: its entry is stored under its key
Accepted(pt) ==
    \E i \in 1..Len(Tables) : Tables[i].k = TableKey(pt) /\ Tables[i].v = TableEntry(pt)

\* C21 (header validation on load): a table of the source whose header axis 1, 2 or 3
\* does not list exactly one label is not in the store, and every stored table was built
\* from a table of the source that lists exactly one label on each of the axes 1-3.
C21_SingleHeaderLabels ==
    (ctx.some /\ ctx.tables.some) =>
      /\ \A n \in 1..Len(SourceTables) :
            ~SingleLabels(SourceTables[n]) => ~Accepted(SourceTables[n])
      /\ \A i \in 1..Len(Tables) :
            \E n \in 1..Len(SourceTables) :
               /\ TableKey(SourceTables[n]) = Tables[i].k
               /\ TableEntry(SourceTables[n]) = Tables[i].v
               /\ SingleLabels(SourceTables[n])

\* row j of table t offers options on each of the axes 4-7
CompleteRow(t, j) == \A p \in AxisPos : RowGet(t.rows[j], p) # <<>>

HasCompleteRow(t) == \E j \in 1..Len(t.rows) : CompleteRow(t, j)

\* root rt has a candidate in the list the resolve_code call returned
RootReturned(rt) ==
    \E i \in 1..Len(call.ret.candidates) : call.ret.candidates[i].root_key = rt

\* the call returned fewer candidates than the cut keeps: no root was lost to the cut
NoCut == Len(call.ret.candidates) < TopN

\* C22 as stated (a row with a missing axis only removes itself): for a root whose table
\* has a row with options on all four axes, best_match_row returns a code whatever the
\* names, and resolve_code does not drop the root (it is returned unless the cut to the
\* first 5 candidates applies).
C22_AsStated ==
    /\ (IsBestMatchRow /\ DictHas(Tables, call.args.root_key)
          /\ HasCompleteRow(TableOf(call.args.root_key))) =>
         call.ret.code # None
    /\ (IsResolve /\ ctx.some /\ ctx.tables.some) =>
         \A rt \in Range(RootsOfCall) :
            (HasCompleteRow(TableOf(rt)) /\ NoCut) => RootReturned(rt)

\* C22 (a row with a missing axis gives no code but competes for the best row): for a
\* root whose table has a row with options on all four axes, the alternate of a row has a
\* code exactly when the row has options on all four axes, and best_match_row returns a
\* code exactly when the first row of maximal aggregate score is such a row; so it does
\* whenever every row that lacks an axis scores less than some complete row, or as much
\* as a complete row before it.  resolve_code returns a candidate for a root only if
\* one of the root's trials returns a code, and then does so unless the cut to the first
\* 5 candidates applies.
C22_MissingAxisRow ==
    /\ (IsBestMatchRow /\ DictHas(Tables, call.args.root_key)
          /\ HasCompleteRow(TableOf(call.args.root_key))) =>
         /\ \A j \in 1..Len(call.ret.alts) :
               call.ret.alts[j].code # None <=> CompleteRow(TableOf(call.args.root_key), j)
         /\ call.ret.code # None <=> CompleteRow(TableOf(call.args.root_key), FirstMaxRow)
         /\ (\A j \in 1..Len(call.ret.alts) :
                ~CompleteRow(TableOf(call.args.root_key), j) =>
                   \E k \in 1..Len(call.ret.alts) :
                      /\ CompleteRow(TableOf(call.args.root_key), k)
                      /\ \/ AggregateScore(j) < AggregateScore(k)
                         \/ AggregateScore(j) = AggregateScore(k) /\ k < j)
              => call.ret.code # None
    /\ (IsResolve /\ ctx.some /\ ctx.tables.some) =>
         \A rt \in Range(RootsOfCall) :
            /\ RootReturned(rt) =>
                  \E bp \in BodyPartTrials, dv \in DeviceTrials :
                     TrialOf(rt, bp, dv).code # None
            /\ (NoCut /\ \E bp \in BodyPartTrials, dv \in DeviceTrials :
                             TrialOf(rt, bp, dv).code # None)
                  => RootReturned(rt)

\* best_match_row was called on 0F9, whose first row has no qualifier axis, with names
\* for which a complete row scores more: that row gave the code, the first row none
C22_Witness ==
    /\ IsBestMatchRow
    /\ call.args.root_key = Key0F9
    /\ ~CompleteRow(TableOf(Key0F9), 1)
    /\ CompleteRow(TableOf(Key0F9), FirstMaxRow)
    /\ call.ret.code # None
    /\ call.ret.alts[1].code = None

\* the resolve_code call made again with the section name sn
WithSection(sn) == ResolveWith(ctx, [call.args EXCEPT !.section_name = sn])

\* C23 (section fixed to '0'): the section name of a resolve_code call has no effect on
\* what it returns, and every candidate it returns has the section component '0' and a
\* code that begins with '0', whether the roots came from the header match or from the
\* index leads.
C23_SectionZero ==
    IsResolve =>
      /\ \A sn \in SectionNames : call.ret = WithSection(sn)
      /\ \A i \in 1..Len(call.ret.candidates) :
            /\ call.ret.candidates[i].components.section = sZero
            /\ call.ret.candidates[i].pcs_code # <<>>
            /\ Head(call.ret.candidates[i].pcs_code) = "0"

\* a call with the section name of Imaging, whose header names matched no root and whose
\* note gave the lead BF1 of a stored Imaging table, returned candidates
C23_Witness ==
    /\ IsResolve
    /\ call.args.section_name = sSecOther
    /\ call.args.body_system_name = sImaging
    /\ InList(<<"B","F","1">>, LeadsOfNote)
    /\ DictHas(Tables, <<"B","F","1">>)
    /\ call.ret.candidates # <<>>

\* the code and the label text of candidate c on axis p
ComponentAt(c, p) ==
    CASE p = "4" -> [code |-> c.components.body_part, text |-> c.labels.body_part]
      [] p = "5" -> [code |-> c.components.approach, text |-> c.labels.approach]
      [] p = "6" -> [code |-> c.components.device, text |-> c.labels.device]
      [] p = "7" -> [code |-> c.components.qualifier, text |-> c.labels.qualifier]

\* C24 (candidate provenance): the code of every returned candidate is the concatenation
\* of its seven components in axis order; its root_key is the concatenation of the first
\* three and a key of the store; on each of the axes 4-7 its component and its label
\* text are the code and the text of one option, the four options being of one row of
\* the root's table; and no two returned candidates have the same root_key.
C24_Provenance ==
    IsResolve =>
      /\ \A i \in 1..Len(call.ret.candidates) :
            /\ call.ret.candidates[i].pcs_code =
                  call.ret.candidates[i].components.section
                    \o call.ret.candidates[i].components.body_system
                    \o call.ret.candidates[i].components.root_operation
                    \o call.ret.candidates[i].components.body_part
                    \o call.ret.candidates[i].components.approach
                    \o call.ret.candidates[i].components.device
                    \o call.ret.candidates[i].components.qualifier
            /\ call.ret.candidates[i].root_key =
                  call.ret.candidates[i].components.section
                    \o call.ret.candidates[i].components.body_system
                    \o call.ret.candidates[i].components.root_operation
            /\ \E n \in 1..Len(Tables) : Tables[n].k = call.ret.candidates[i].root_key
            /\ \E j \in 1..Len(TableOf(call.ret.candidates[i].root_key).rows) :
                  \A p \in AxisPos :
                     ComponentAt(call.ret.candidates[i], p)
                       \in Options(TableOf(call.ret.candidates[i].root_key).rows[j], p)
      /\ \A i, j \in 1..Len(call.ret.candidates) :
            i # j => call.ret.candidates[i].root_key # call.ret.candidates[j].root_key

\* a call returned several candidates, one of them with the device Drainage Device picked
\* by name from a row that lists it
C24_Witness ==
    /\ IsResolve
    /\ Len(call.ret.candidates) >= 2
    /\ \E i \in 1..Len(call.ret.candidates) :
          /\ call.ret.candidates[i].components.device = <<"0">>
          /\ call.ret.candidates[i].labels.device = sDrainDev

====
